---- MODULE Spec2Model ----
(***************************************************************************)
(* A model of the reconciliation core of the helm operator:                *)
(*   - pkg/finalizer: the finalizer Manager (RegisterFinalizer, Finalize,  *)
(*     FinalizeOne, Reconcile, ReconcileOne) acting on one Finalizable;    *)
(*   - pkg/helm/controller: the release hook that adds watches for the     *)
(*     kinds of a release manifest.                                        *)
(* Spec is the finalizer Manager, SpecWatchSeq the release hook run one    *)
(* manifest at a time.                                                     *)
(***************************************************************************)
EXTENDS Integers, Sequences, FiniteSets, TLC

\* ------------------------------------------------------------------ bounds
\* Longest finalizer list the model lets ReconcileOne build.
MaxLen == 3

\* Reconciles of the managed resource.
MaxAttempts == 4

\* Calls of the shared Manager that the callers begin.
MaxCalls == 3

\* Finalizer names and the finalize actions that can be registered under them.
Names == {"a", "b", "c"}
Actions == {"A1", "A2"}
None == "none"

VARIABLES
    registry,   \* fm.finalizers: name -> registered action, None when absent
    fins,       \* the resource's finalizer list (what GetFinalizers shows)
    alias,      \* TRUE: GetFinalizers hands out the resource's own slice
    last,       \* record of the last Manager call
    prior,      \* record of the call before it, when the two are related
    \* the release hook of watchDependentResources
    watches,      \* the map watches: the kinds marked seen
    ownerCluster, \* whether the owner kind is cluster-scoped
    hpc,          \* each hook run's position in releaseHook
    hdocs,        \* the documents of its manifest not yet decoded
    hcur,         \* the kind of the document it is processing (u)
    hret,         \* what its last completed run returned
    watchCalls,   \* calls of c.Watch per kind
    watchOk,      \* calls of c.Watch per kind that returned nil
    failures,     \* errors the collaborators have returned so far
    mapCalls,     \* calls of RESTMapping for a dependent kind, per kind
    \* the dependentPredicate of watchDependentResources
    evKind,       \* the last notification: "create", "delete", "update"
    evOld,        \* e.ObjectOld of an update notification
    evNew,        \* e.Object, or e.ObjectNew of an update notification
    passed,       \* what the predicate last returned, per kind of notification
    \* the reconciler of one managed resource and its uninstall finalizer
    rFins,          \* the resource's finalizer list
    rDeletion,      \* whether its deletion timestamp is set
    release,        \* the release in the rendering engine: absent, deployed
    rStored,        \* the status conditions the API server holds
    rLast,          \* record of the last reconcile of the resource
    attempts,       \* reconciles so far
    installCalls,   \* calls of the engine's install path
    uninstallCalls, \* calls of manager.UninstallRelease
    \* calls of one Manager on different resources, step by step
    clist,      \* each resource's finalizer list
    cpc,        \* each caller's position in its call
    cop,        \* the call it is in: operation, name, failing invocation
    cpre,       \* the resource's list when the call began
    cwork,      \* the local slice toFinalize
    cidx,       \* the loop index i (counted from 1)
    cf,         \* what the lookup under the read lock gave
    cinv,       \* the actions the call has invoked so far
    cout,       \* what the caller's last call returned
    readers,    \* holders of fm.mutex.RLock
    wpc,        \* the registering caller's position in RegisterFinalizer
    warg,       \* the name and action it registers
    ccalls,     \* calls begun so far
    \* a polling loop of the installer's client
    pkind,      \* the call in progress: DoCreate, DoDelete, DoRolloutWait,
                \* DoCSVWait
    ppc,        \* its position: create, delete, first, select, returned
    pleft,      \* DoDelete: the objects not yet seen gone
    ctxDone,    \* whether ctx.Done() is closed
    pret,       \* what the call returned
    polls,      \* calls of the condition function in this call
    plast,      \* what the last Get of the condition function gave
    curPhase,   \* DoCSVWait: the phase last logged
    papi,       \* DoCreate, DoDelete: the Create or Delete requests sent in
                \* this call, the objects seen gone, the last request's result
    \* the scaffolding of an API from a chart
    chrt,       \* the chart handed to loadSchema, with its dependencies
    loaded,     \* what loadSchema returned for it
    \* the CRD template
    crdIn,      \* the CRD before SetTemplateDefaults
    crd,        \* the CRD, f
    crdErr,     \* what SetTemplateDefaults returned
    \* the client Configuration
    confIn,     \* the Configuration before Load, and the process environment
    conf,       \* the Configuration, c
    confErr,    \* what Load returned
    \* the OLM installer: its Manager and the client's GetInstalledVersion
    olmIn,      \* what List returns for the namespace, and m.Version
    olmOut,     \* the call made, what it returned and what it left
    \* the logging owner-enqueue handler
    ownerType,  \* the GroupVersionKind of h.ownerType
    handled,    \* the notifications handed to the handler
    forwarded,  \* the calls of the wrapped EventHandler
    logged,     \* the "OwnerReference handler event" records written
    parseErrs   \* the "Could not parse OwnerReference APIVersion" records

finVars == <<registry, fins, alias, last, prior>>

hookVars == <<watches, ownerCluster, hpc, hdocs, hcur, hret, watchCalls,
              watchOk, failures, mapCalls>>

predVars == <<evKind, evOld, evNew, passed>>

\* The state of the parts an action of the Manager or of the hook leaves alone.
relVars == <<rFins, rDeletion, release, rStored, rLast, attempts, installCalls,
             uninstallCalls>>

concVars == <<clist, cpc, cop, cpre, cwork, cidx, cf, cinv, cout, readers, wpc,
              warg, ccalls>>

pollVars == <<pkind, ppc, pleft, ctxDone, pret, polls, plast, curPhase, papi>>

schemaVars == <<chrt, loaded>>

crdVars == <<crdIn, crd, crdErr>>

confVars == <<confIn, conf, confErr>>

olmVars == <<olmIn, olmOut>>

logVars == <<ownerType, handled, forwarded, logged, parseErrs>>

extVars == <<olmVars, logVars>>

toolVars == <<pollVars, schemaVars, crdVars, confVars, extVars>>

otherVars == <<predVars, relVars, concVars, toolVars>>

coreVars == <<finVars, hookVars, predVars, relVars, concVars>>

notPoll == <<coreVars, schemaVars, crdVars, confVars, extVars>>

notSchema == <<coreVars, pollVars, crdVars, confVars, extVars>>

notCrd == <<coreVars, pollVars, schemaVars, confVars, extVars>>

notConf == <<coreVars, pollVars, schemaVars, crdVars, extVars>>

baseToolVars == <<pollVars, schemaVars, crdVars, confVars>>

notOlm == <<coreVars, baseToolVars, logVars>>

notLog == <<coreVars, baseToolVars, olmVars>>

vars == <<finVars, hookVars, otherVars>>

\* ------------------------------------------------------------- sequences
Range(s) == {s[j] : j \in 1..Len(s)}

NoDup(s) == \A j, k \in 1..Len(s) : s[j] = s[k] => j = k

Count(s, x) == Cardinality({j \in 1..Len(s) : s[j] = x})

\* The subsequence of s of the elements satisfying Keep, order preserved.
Restrict(s, keep) == SelectSeq(s, LAMBDA x : x \in keep)

\* All sequences over S of length at most n.
SeqsUpTo(S, n) == UNION {[1..k -> S] : k \in 0..n}

\* append(s[0:i], s[i+1:len(s)]...) with i counted from 1: the slice without
\* its i-th element.
\* A cut that drops the last element in place of the i-th.
RemoveLast(s, i) == SubSeq(s, 1, Len(s) - 1)

RemoveAt(s, i) == SubSeq(s, 1, i - 1) \o SubSeq(s, i + 1, Len(s))

\* What the same append does to a slice res that shares its backing array
\* with the slice being cut (whose length is m): the elements after i move
\* one place down in the array, the length of res stays.
ShiftAliased(res, i, m) ==
    [j \in 1..Len(res) |-> IF i <= j /\ j < m THEN res[j + 1] ELSE res[j]]

\* ------------------------------------------------------------- the Manager
Registered(reg) == {n \in Names : reg[n] # None}

NewManager == [n \in Names |-> None]

\* A registration that keeps the action a name already has.
RegisterFirstWins(reg, name, f) ==
    IF reg[name] = None THEN [reg EXCEPT ![name] = f] ELSE reg

RegisterFinalizer(reg, name, f) == [reg EXCEPT ![name] = f]

\* The loop of Manager.Finalize from position i on. work is toFinalize, res
\* the resource's list, invoked the actions run so far, failAt the number of
\* the invocation that returns an error (0: none does).
RECURSIVE FinalizeLoop(_, _, _, _, _, _, _)
FinalizeLoop(work, res, i, invoked, failAt, reg, shared) ==
    IF i > Len(work)
    THEN [fins |-> work, err |-> "nil", invoked |-> invoked, sets |-> 1]
    ELSE LET name == work[i] IN
         IF reg[name] # None
         THEN LET inv == Append(invoked, <<name, reg[name]>>) IN
              IF Len(inv) = failAt
              THEN [fins |-> res, err |-> "err", invoked |-> inv, sets |-> 0]
              ELSE FinalizeLoop(RemoveAt(work, i),
                                IF shared THEN ShiftAliased(res, i, Len(work))
                                          ELSE res,
                                i, inv, failAt, reg, shared)
         ELSE FinalizeLoop(work, res, i + 1, invoked, failAt, reg, shared)

\* A loop that moves on to position i + 1 after it has cut position i, and
\* so passes over the name that followed.
RECURSIVE FinalizeLoopSkip(_, _, _, _, _, _, _)
FinalizeLoopSkip(work, res, i, invoked, failAt, reg, shared) ==
    IF i > Len(work)
    THEN [fins |-> work, err |-> "nil", invoked |-> invoked, sets |-> 1]
    ELSE LET name == work[i] IN
         IF reg[name] # None
         THEN LET inv == Append(invoked, <<name, reg[name]>>) IN
              IF Len(inv) = failAt
              THEN [fins |-> res, err |-> "err", invoked |-> inv, sets |-> 0]
              ELSE FinalizeLoopSkip(RemoveAt(work, i),
                                    IF shared
                                    THEN ShiftAliased(res, i, Len(work))
                                    ELSE res,
                                    i + 1, inv, failAt, reg, shared)
         ELSE FinalizeLoopSkip(work, res, i + 1, invoked, failAt, reg, shared)

FinalizeSkipsNext(res, failAt, reg, shared) ==
    FinalizeLoopSkip(res, res, 1, <<>>, failAt, reg, shared)

\* A Finalize that writes the list back after every removal.
FinalizeWritesEach(res, failAt, reg, shared) ==
    LET r == FinalizeLoop(res, res, 1, <<>>, failAt, reg, shared)
        removed == IF r.err = "nil" THEN Len(r.invoked) ELSE Len(r.invoked) - 1
    IN  [r EXCEPT !.sets = removed]

\* A Finalize that ends with SetFinalizers of an empty list.
FinalizeClearsList(res, failAt, reg, shared) ==
    LET r == FinalizeLoop(res, res, 1, <<>>, failAt, reg, shared)
    IN  IF r.err = "nil" THEN [r EXCEPT !.fins = <<>>] ELSE r

Reverse(s) == [j \in 1..Len(s) |-> s[Len(s) + 1 - j]]

\* A Finalize that walks the list from its end.
FinalizeBackwards(res, failAt, reg, shared) ==
    LET r == FinalizeLoop(Reverse(res), Reverse(res), 1, <<>>, failAt, reg,
                          FALSE)
    IN  IF r.err = "nil" THEN [r EXCEPT !.fins = Reverse(r.fins)]
        ELSE [r EXCEPT !.fins = res]

\* A Finalize that ends with SetFinalizers of the list it began with.
FinalizeKeepsList(res, failAt, reg, shared) ==
    [FinalizeLoop(res, res, 1, <<>>, failAt, reg, shared) EXCEPT !.fins = res]

Finalize(res, failAt, reg, shared) ==
    FinalizeLoop(res, res, 1, <<>>, failAt, reg, shared)

\* Manager.Finalize when the action invoked as number addAt puts the name
\* new on the resource (SetFinalizers(append(GetFinalizers(), new))) before
\* it returns nil. work is the local toFinalize, res the resource's list;
\* realloc says whether that append moved the resource's list to a new
\* array, after which cuts of toFinalize no longer show through.
RECURSIVE FinalizeAddingLoop(_, _, _, _, _, _, _, _, _, _, _)
FinalizeAddingLoop(work, res, i, invoked, added, failAt, addAt, new, realloc, reg, shared) ==
    IF i > Len(work)
    THEN [fins |-> work, err |-> "nil", invoked |-> invoked, sets |-> 1,
          added |-> added]
    ELSE LET name == work[i] IN
         IF reg[name] # None
         THEN LET inv == Append(invoked, <<name, reg[name]>>)
                  adds == Len(inv) = addAt
                  res1 == IF adds THEN Append(res, new) ELSE res
                  shared1 == shared /\ ~(adds /\ realloc)
              IN
              IF Len(inv) = failAt
              THEN [fins |-> res, err |-> "err", invoked |-> inv, sets |-> 0,
                    added |-> added]
              ELSE FinalizeAddingLoop(RemoveAt(work, i),
                       IF shared1 THEN ShiftAliased(res1, i, Len(work))
                                  ELSE res1,
                       i, inv, added \/ adds, failAt, addAt, new, realloc,
                       reg, shared1)
         ELSE FinalizeAddingLoop(work, res, i + 1, invoked, added, failAt,
                                 addAt, new, realloc, reg, shared)

FinalizeAdding(res, failAt, addAt, new, realloc, reg, shared) ==
    FinalizeAddingLoop(res, res, 1, <<>>, FALSE, failAt, addAt, new, realloc,
                       reg, shared)

\* A FinalizeOne that clears the name although it has no registration.
FinalizeOneClears(res, name, fails, reg) ==
    IF reg[name] = None
    THEN [fins |-> Restrict(res, Names \ {name}), err |-> "ErrNotFound",
          invoked |-> <<>>, sets |-> 1]
    ELSE [fins |-> IF fails THEN res ELSE Restrict(res, Names \ {name}),
          err |-> IF fails THEN "err" ELSE "nil",
          invoked |-> <<<<name, reg[name]>>>>, sets |-> IF fails THEN 0 ELSE 1]

\* A FinalizeOne that cuts the list off at the name (toFinalize[0:i]).
FinalizeOneTruncates(res, name, fails, reg) ==
    IF reg[name] = None
    THEN [fins |-> res, err |-> "ErrNotFound", invoked |-> <<>>, sets |-> 0]
    ELSE IF fails
    THEN [fins |-> res, err |-> "err", invoked |-> <<<<name, reg[name]>>>>,
          sets |-> 0]
    ELSE LET hits == {j \in 1..Len(res) : res[j] = name}
             work == IF hits = {} THEN res
                     ELSE SubSeq(res, 1, (CHOOSE j \in hits :
                                            \A k \in hits : j <= k) - 1)
         IN [fins |-> work, err |-> "nil",
             invoked |-> <<<<name, reg[name]>>>>, sets |-> 1]

\* Manager.FinalizeOne; fails says whether the action returns an error.
FinalizeOne(res, name, fails, reg) ==
    IF reg[name] = None
    THEN [fins |-> res, err |-> "ErrNotFound", invoked |-> <<>>, sets |-> 0]
    ELSE IF fails
    THEN [fins |-> res, err |-> "err", invoked |-> <<<<name, reg[name]>>>>,
          sets |-> 0]
    ELSE LET hits == {j \in 1..Len(res) : res[j] = name}
             work == IF hits = {} THEN res
                     ELSE RemoveAt(res, CHOOSE j \in hits :
                                            \A k \in hits : j <= k)
         IN [fins |-> work, err |-> "nil",
             invoked |-> <<<<name, reg[name]>>>>, sets |-> 1]

\* A Reconcile that writes back only the names that have a registration.
ReconcileDropsUnregistered(res, reg) ==
    [fins |-> Restrict(res, Registered(reg)),
     added |-> Registered(reg) \ Range(res) # {}, sets |-> 1]

\* Manager.Reconcile: the missing names are appended to the local slice
\* only; the resource is never written.
Reconcile(res, reg) ==
    LET missing == Registered(reg) \ Range(res)
    IN [fins |-> res, added |-> missing # {}, sets |-> 0]

\* A ReconcileOne that appends without looking for the name.
ReconcileOneAlways(res, name) ==
    [fins |-> Append(res, name), added |-> TRUE, sets |-> 1]

\* Manager.ReconcileOne.
ReconcileOne(res, name) ==
    IF name \in Range(res)
    THEN [fins |-> res, added |-> FALSE, sets |-> 0]
    ELSE [fins |-> Append(res, name), added |-> TRUE, sets |-> 1]

\* ------------------------------------------------- the dependent predicate
\* An unstructured object is its map Object: a function from the top-level
\* keys it has to their values; the value of "metadata" is again such a map.
Absent == "absent"

NoFields == [k \in {} |-> Absent]

Put(f, k, v) == [x \in DOMAIN f \cup {k} |-> IF x = k THEN v ELSE f[x]]

\* The builtin delete(m, k): no effect when m has no key k.
Delete(f, k) == [x \in DOMAIN f \ {k} |-> f[x]]

PutIfPresent(f, k, v) == IF v = Absent THEN f ELSE Put(f, k, v)

ObjNames == {"a", "b"}
ResourceVersions == {Absent, "1", "2"}
SpecValues == {Absent, "s1", "s2"}
StatusValues == {Absent, "t1", "t2"}

\* What an informer delivers: metadata with a name is always there,
\* resourceVersion, spec and status may be missing.
Object(name, rv, sp, st) ==
    LET meta == PutIfPresent(Put(NoFields, "name", name), "resourceVersion", rv)
    IN  PutIfPresent(PutIfPresent(Put(NoFields, "metadata", meta), "spec", sp),
                     "status", st)

Objects ==
    {Object(n, rv, sp, st) : n \in ObjNames, rv \in ResourceVersions,
                             sp \in SpecValues, st \in StatusValues}

\* Unstructured.DeepCopy: a map that shares nothing with the event's object.
DeepCopy(u) == u

\* Unstructured.SetResourceVersion: stores the value at
\* metadata.resourceVersion, creating metadata when the object has none.
SetResourceVersion(u, v) ==
    LET meta == IF "metadata" \in DOMAIN u THEN u["metadata"] ELSE NoFields
    IN  Put(u, "metadata", Put(meta, "resourceVersion", v))

\* A predicate that lets every create notification through.
CreateFuncPasses(obj) == TRUE

CreateFunc(obj) == FALSE

DeleteFunc(obj) == TRUE

\* An UpdateFunc that leaves status in the objects it compares.
UpdateFuncKeepsStatus(old, new) ==
    SetResourceVersion(DeepCopy(old), "") # SetResourceVersion(DeepCopy(new), "")

UpdateFunc(old, new) ==
    LET o == SetResourceVersion(Delete(DeepCopy(old), "status"), "")
        n == SetResourceVersion(Delete(DeepCopy(new), "status"), "")
    IN  IF o = n THEN FALSE ELSE TRUE

PredIdle ==
    /\ evKind = None
    /\ evOld = Absent
    /\ evNew = Absent
    /\ passed = NoFields

\* The notifications of one dependent object as its informer delivers them:
\* a create when the object appears, updates from the version last delivered
\* to a new one, a delete with the version last delivered.
Exists == evKind \in {"create", "update"}

OnCreate(obj) ==
    /\ ~Exists
    /\ evKind' = "create"
    /\ evOld' = Absent
    /\ evNew' = obj
    /\ passed' = Put(passed, "create", CreateFunc(obj))
    /\ UNCHANGED <<finVars, hookVars, relVars, concVars, toolVars>>

OnDelete ==
    /\ Exists
    /\ evKind' = "delete"
    /\ evOld' = Absent
    /\ evNew' = evNew
    /\ passed' = Put(passed, "delete", DeleteFunc(evNew))
    /\ UNCHANGED <<finVars, hookVars, relVars, concVars, toolVars>>

OnUpdate(new) ==
    /\ Exists
    /\ evKind' = "update"
    /\ evOld' = evNew
    /\ evNew' = new
    /\ passed' = Put(passed, "update", UpdateFunc(evNew, new))
    /\ UNCHANGED <<finVars, hookVars, relVars, concVars, toolVars>>

\* -------------------------------------------------- the uninstall finalizer
UninstallName == "uninstall-helm-release"

\* A finalizer name that another controller put on the resource.
ForeignName == "a"

\* Add: finalizer.NewManager() and the one registration it makes.
AddRegistryEmpty == [n \in Names \cup {UninstallName} |-> None]

AddRegistry ==
    RegisterFinalizer([n \in Names \cup {UninstallName} |-> None],
                      UninstallName, "uninstall")

\* The texts of the errors the rendering engine returns.
ErrTexts == {"e1", "e2"}

WriteFailed == "status update failed"

\* types.HelmAppCondition; a status is a map from condition type to it.
Condition(st, reason, message) ==
    [status |-> st, reason |-> reason, message |-> message]

NoConditions == NoFields

\* types.StatusFor: the status the object carries.
StatusFor(stored) == stored

\* HelmAppStatus.SetCondition: replaces the condition of the same type.
SetCondition(status, type, c) == Put(status, type, c)

\* HelmAppStatus.RemoveCondition.
RemoveCondition(status, type) == Delete(status, type)

\* updateResourceStatus: the conditions the API server holds afterwards and
\* the error returned.
UpdateResourceStatus(stored, status, writeOk) ==
    IF writeOk THEN [stored |-> status, err |-> "nil"]
               ELSE [stored |-> stored, err |-> WriteFailed]

\* The outcomes of manager.UninstallRelease for a release in state rel.
UninstallOutcomes(rel) ==
    IF rel = "deployed" THEN {"ok", "error"} ELSE {"notfound", "error"}

\* A finalizer that returns what the status write returned when the
\* uninstall has failed.
UninstallFinalizerReturnsWriteErr(stored, outcome, text, writeOk) ==
    LET status0 == StatusFor(stored)
        status == IF outcome = "error"
                  THEN SetCondition(status0, "ReleaseFailed",
                           Condition("True", "UninstallError", text))
                  ELSE IF outcome = "notfound"
                  THEN RemoveCondition(status0, "ReleaseFailed")
                  ELSE SetCondition(RemoveCondition(status0, "ReleaseFailed"),
                           "Deployed",
                           Condition("False", "UninstallSuccessful", ""))
        w == UpdateResourceStatus(stored, status, writeOk)
    IN  [status |-> status, stored |-> w.stored, err |-> w.err]

\* A finalizer that takes ErrNotFound for a failure of the uninstall.
UninstallFinalizerNotFoundFails(stored, outcome, text, writeOk) ==
    LET status0 == StatusFor(stored) IN
    IF outcome # "ok"
    THEN LET status == SetCondition(status0, "ReleaseFailed",
                           Condition("True", "UninstallError", text))
         IN  [status |-> status,
              stored |-> UpdateResourceStatus(stored, status, writeOk).stored,
              err |-> text]
    ELSE LET status == SetCondition(RemoveCondition(status0, "ReleaseFailed"),
                           "Deployed",
                           Condition("False", "UninstallSuccessful", ""))
             w == UpdateResourceStatus(stored, status, writeOk)
         IN  [status |-> status, stored |-> w.stored, err |-> w.err]

\* A finalizer that drops the result of the status write.
UninstallFinalizerIgnoresWrite(stored, outcome, text, writeOk) ==
    LET status0 == StatusFor(stored) IN
    IF outcome = "error"
    THEN LET status == SetCondition(status0, "ReleaseFailed",
                           Condition("True", "UninstallError", text))
         IN  [status |-> status,
              stored |-> UpdateResourceStatus(stored, status, writeOk).stored,
              err |-> text]
    ELSE LET status1 == RemoveCondition(status0, "ReleaseFailed")
             status == IF outcome = "notfound" THEN status1
                       ELSE SetCondition(status1, "Deployed",
                                Condition("False", "UninstallSuccessful", ""))
             w == UpdateResourceStatus(stored, status, writeOk)
         IN  [status |-> status, stored |-> w.stored, err |-> "nil"]

\* A finalizer that reports the release uninstalled when it was not found.
UninstallFinalizerNotFoundUninstalled(stored, outcome, text, writeOk) ==
    LET status0 == StatusFor(stored) IN
    IF outcome = "error"
    THEN LET status == SetCondition(status0, "ReleaseFailed",
                           Condition("True", "UninstallError", text))
         IN  [status |-> status,
              stored |-> UpdateResourceStatus(stored, status, writeOk).stored,
              err |-> text]
    ELSE LET status1 == RemoveCondition(status0, "ReleaseFailed")
             status == SetCondition(status1, "Deployed",
                           Condition("False", "UninstallSuccessful", ""))
             w == UpdateResourceStatus(stored, status, writeOk)
         IN  [status |-> status, stored |-> w.stored, err |-> w.err]

\* A finalizer that does not set the Deployed condition after the uninstall.
UninstallFinalizerNoCondition(stored, outcome, text, writeOk) ==
    LET status0 == StatusFor(stored) IN
    IF outcome = "error"
    THEN LET status == SetCondition(status0, "ReleaseFailed",
                           Condition("True", "UninstallError", text))
         IN  [status |-> status,
              stored |-> UpdateResourceStatus(stored, status, writeOk).stored,
              err |-> text]
    ELSE LET status == RemoveCondition(status0, "ReleaseFailed")
             w == UpdateResourceStatus(stored, status, writeOk)
         IN  [status |-> status, stored |-> w.stored, err |-> w.err]

\* The FinalizeFunc of NewUninstallFinalizer. stored is the status of the
\* object handed in, outcome and text what UninstallRelease returns, writeOk
\* whether updateResourceStatus succeeds. status is what the deferred
\* function leaves in o.Object["status"].
UninstallFinalizer(stored, outcome, text, writeOk) ==
    LET status0 == StatusFor(stored) IN
    IF outcome = "error"
    THEN LET status == SetCondition(status0, "ReleaseFailed",
                           Condition("True", "UninstallError", text))
         IN  [status |-> status,
              stored |-> UpdateResourceStatus(stored, status, writeOk).stored,
              err |-> text]
    ELSE LET status1 == RemoveCondition(status0, "ReleaseFailed")
             status == IF outcome = "notfound" THEN status1
                       ELSE SetCondition(status1, "Deployed",
                                Condition("False", "UninstallSuccessful", ""))
             w == UpdateResourceStatus(stored, status, writeOk)
         IN  [status |-> status, stored |-> w.stored, err |-> w.err]

\* The record of a reconcile. outcome is what the engine returned ("none"
\* when it was not called), text the error text it came with.
Attempt(op, invoked, outcome, text, writeOk, err, pre, before, status) ==
    [op |-> op, invoked |-> invoked, outcome |-> outcome, text |-> text,
     write |-> writeOk, err |-> err, pre |-> pre, before |-> before,
     status |-> status]

NoAttempt ==
    Attempt("none", FALSE, "none", "", FALSE, "nil", <<>>, NoConditions,
            NoConditions)

\* The finalizer lists a new resource can carry.
ResourceLists ==
    {s \in SeqsUpTo({UninstallName, ForeignName}, 2) : NoDup(s)}

RelInit ==
    /\ rFins \in ResourceLists
    /\ rDeletion = FALSE
    /\ release = "absent"
    /\ rStored = NoConditions
    /\ rLast = NoAttempt
    /\ attempts = 0
    /\ installCalls = 0
    /\ uninstallCalls = 0

RelIdle == RelInit /\ rFins = <<>>

\* A reconcile of a resource without deletion timestamp: the install path
\* when there is no release, the upgrade path otherwise.
DoApply(ok, text, writeOk) ==
    /\ ~rDeletion
    /\ attempts < MaxAttempts
    /\ LET op == IF release = "absent" THEN "install" ELSE "upgrade"
           status0 == StatusFor(rStored)
           status ==
               IF ok
               THEN SetCondition(RemoveCondition(status0, "ReleaseFailed"),
                        "Deployed",
                        Condition("True",
                                  IF op = "install" THEN "InstallSuccessful"
                                                    ELSE "UpgradeSuccessful",
                                  ""))
               ELSE SetCondition(status0, "ReleaseFailed",
                        Condition("True",
                                  IF op = "install" THEN "InstallError"
                                                    ELSE "UpgradeError",
                                  text))
           w == UpdateResourceStatus(rStored, status, writeOk)
       IN  /\ release' = IF ok THEN "deployed" ELSE release
           /\ rStored' = w.stored
           /\ installCalls' = IF op = "install" THEN installCalls + 1
                                                ELSE installCalls
           /\ rLast' = Attempt(op, TRUE, IF ok THEN "ok" ELSE "error",
                               IF ok THEN "" ELSE text, writeOk,
                               IF ok THEN w.err ELSE text, rFins, rStored,
                               status)
    /\ attempts' = attempts + 1
    /\ UNCHANGED <<rFins, rDeletion, uninstallCalls>>
    /\ UNCHANGED <<finVars, hookVars, predVars, concVars, toolVars>>

\* The API server sets the deletion timestamp.
DoMarkDeleted ==
    /\ ~rDeletion
    /\ rDeletion' = TRUE
    /\ UNCHANGED <<rFins, release, rStored, rLast, attempts, installCalls,
                   uninstallCalls>>
    /\ UNCHANGED <<finVars, hookVars, predVars, concVars, toolVars>>

\* A reconcile of a resource with deletion timestamp that still has
\* finalizers: FinalizerManager.Finalize on the object read from the API
\* server (an unstructured object, whose GetFinalizers copies). Finalize
\* returns the error of the action as it is. count is what the reconcile
\* adds to the counters of reconciles and of UninstallRelease calls.
DeleteReconcile(outcome, text, writeOk, count) ==
    /\ rDeletion
    /\ rFins # <<>>
    /\ outcome \in UninstallOutcomes(release)
    /\ LET invoked == UninstallName \in Range(rFins)
               /\ AddRegistry[UninstallName] # None
           f == UninstallFinalizer(rStored, outcome, text, writeOk)
           res == Finalize(rFins, IF invoked /\ f.err # "nil" THEN 1 ELSE 0,
                           AddRegistry, FALSE)
       IN  /\ rFins' = res.fins
           /\ rStored' = IF invoked THEN f.stored ELSE rStored
           /\ release' = IF invoked /\ outcome = "ok" THEN "absent"
                                                      ELSE release
           /\ uninstallCalls' = IF invoked THEN uninstallCalls + count
                                           ELSE uninstallCalls
           /\ rLast' = IF invoked
                       THEN Attempt("delete", TRUE, outcome,
                                    IF outcome = "error" THEN text ELSE "",
                                    writeOk,
                                    IF res.err = "nil" THEN "nil" ELSE f.err,
                                    rFins, rStored, f.status)
                       ELSE Attempt("delete", FALSE, "none", "", FALSE,
                                    res.err, rFins, rStored, rStored)
    /\ attempts' = attempts + count
    /\ UNCHANGED <<rDeletion, installCalls>>
    /\ UNCHANGED <<finVars, hookVars, predVars, concVars, toolVars>>

DoDelete(outcome, text, writeOk) ==
    /\ attempts < MaxAttempts
    /\ DeleteReconcile(outcome, text, writeOk, 1)

\* A deletion reconcile that the counters leave out: the retriggers of a
\* resource that keeps its finalizer are not bounded.
DoDeleteAgain(outcome, text, writeOk) ==
    DeleteReconcile(outcome, text, writeOk, 0)

\* The reconcile in which the engine and the status write do not fail.
DoDeleteSucceeding ==
    \E outcome \in {"ok", "notfound"} : DoDeleteAgain(outcome, "", TRUE)

\* ------------------------------------- polling loops of the olm client
\* Objects one DoDelete call is given, at most.
MaxObjs == 2

\* Polls that fit between the start of a call and the caller's deadline.
MaxPolls == 3

NoObj == [kind |-> "none"]

\* The phases of a ClusterServiceVersion the model tells apart.
Phases == {"", "Pending", "Succeeded"}

\* Deployments as rolloutComplete reads them; spec.replicas is a pointer,
\* <<>> when nil.
Deployments ==
    [kind : {"Deployment"}, generation : {1}, observed : 0..1,
     timedOut : BOOLEAN, specReplicas : {<<>>, <<0>>, <<1>>},
     updated : 0..1, replicas : 0..1, available : 0..1]

GetResult(err, obj) == [err |-> err, obj |-> obj]

\* What c.Get(ctx, key, obj) can give: with ctx done the request fails with
\* the context's error; otherwise not found, another API error, or the object.
Gets(kind, done) ==
    IF done THEN {GetResult("ctx", NoObj)}
    ELSE {GetResult(e, NoObj) : e \in {"notfound", "e1"}} \cup
         (IF kind = "DoDelete" THEN {GetResult("nil", [kind |-> "object"])}
          ELSE IF kind = "DoCSVWait"
               THEN {GetResult("nil", [kind |-> "CSV", phase |-> p]) :
                         p \in Phases}
          ELSE {GetResult("nil", d) : d \in Deployments})

Cond(done, err) == [done |-> done, err |-> err]

\* The condition function of DoDelete's wait.
objectGone(get) ==
    IF get.err = "notfound" THEN Cond(TRUE, "nil")
    ELSE IF get.err # "nil" THEN Cond(FALSE, get.err)
    ELSE Cond(FALSE, "nil")

rolloutComplete(get) ==
    IF get.err # "nil" THEN Cond(FALSE, get.err)
    ELSE LET d == get.obj
         IN IF d.generation <= d.observed
            THEN IF d.timedOut THEN Cond(FALSE, "deadline")
                 ELSE IF d.specReplicas # <<>> /\ d.updated < d.specReplicas[1]
                      THEN Cond(FALSE, "nil")
                 ELSE IF d.replicas > d.updated THEN Cond(FALSE, "nil")
                 ELSE IF d.available < d.updated THEN Cond(FALSE, "nil")
                 ELSE Cond(TRUE, "nil")
            ELSE Cond(FALSE, "nil")

\* A condition function that keeps waiting whatever error Get gives.
csvPhaseSucceededWaits(get) ==
    IF get.err # "nil" THEN Cond(FALSE, "nil")
    ELSE Cond(get.obj.phase = "Succeeded", "nil")

csvPhaseSucceeded(get) ==
    IF get.err # "nil"
    THEN IF get.err = "notfound" THEN Cond(FALSE, "nil")
         ELSE Cond(FALSE, get.err)
    ELSE Cond(get.obj.phase = "Succeeded", "nil")

Condition24(kind, get) ==
    IF kind = "DoDelete" THEN objectGone(get)
    ELSE IF kind = "DoRolloutWait" THEN rolloutComplete(get)
    ELSE csvPhaseSucceeded(get)

NoApi == [issued |-> 0, gone |-> 0, out |-> "none"]

PollIdle ==
    /\ pkind = "none" /\ ppc = "idle" /\ pleft = 0 /\ ctxDone = FALSE
    /\ pret = "none" /\ polls = 0 /\ plast = GetResult("nil", NoObj)
    /\ curPhase = "" /\ papi = NoApi

PReturn(err) == ppc' = "returned" /\ pret' = err

\* A call begins: DoCreate and DoDelete with n objects, the other two with
\* one key.
PStart(kind, n) ==
    /\ ppc \in {"idle", "returned"}
    /\ pkind' = kind
    /\ pleft' = n
    /\ ctxDone' = FALSE
    /\ polls' = 0
    /\ plast' = GetResult("nil", NoObj)
    /\ curPhase' = ""
    /\ papi' = NoApi
    /\ IF kind \in {"DoCreate", "DoDelete"}
       THEN IF n = 0 THEN PReturn("nil")
            ELSE /\ ppc' = (IF kind = "DoCreate" THEN "create" ELSE "delete")
                 /\ pret' = "none"
       ELSE ppc' = "first" /\ pret' = "none"
    /\ UNCHANGED notPoll

\* The caller cancels ctx, or its deadline passes.
PCancel ==
    /\ ppc \in {"create", "delete", "first", "select"}
    /\ ~ctxDone
    /\ ctxDone' = TRUE
    /\ UNCHANGED <<pkind, ppc, pleft, pret, polls, plast, curPhase, papi>>
    /\ UNCHANGED notPoll

\* The request counted unless the accessor failed before it was sent.
Sent(outcome) ==
    [papi EXCEPT !.issued = IF outcome = "noaccessor" THEN @ ELSE @ + 1,
                 !.out = outcome]

\* A DoCreate that gives up on an object that exists already.
PCreateStrict(outcome) ==
    /\ ppc = "create"
    /\ outcome \in (IF ctxDone THEN {"noaccessor", "ctx"}
                    ELSE {"noaccessor", "ok", "exists", "e1"})
    /\ papi' = Sent(outcome)
    /\ IF outcome = "ok"
       THEN IF pleft > 1
            THEN ppc' = "create" /\ pret' = "none" /\ pleft' = pleft - 1
            ELSE PReturn("nil") /\ pleft' = 0
       ELSE PReturn(outcome) /\ pleft' = pleft
    /\ UNCHANGED <<pkind, ctxDone, polls, plast, curPhase>>
    /\ UNCHANGED notPoll

\* DoCreate, lines 49-63 for the next object: the accessor and c.Create.
PCreate(outcome) ==
    /\ ppc = "create"
    /\ outcome \in (IF ctxDone THEN {"noaccessor", "ctx"}
                    ELSE {"noaccessor", "ok", "exists", "e1"})
    /\ papi' = Sent(outcome)
    /\ IF outcome \in {"ok", "exists"}
       THEN IF pleft > 1
            THEN ppc' = "create" /\ pret' = "none" /\ pleft' = pleft - 1
            ELSE PReturn("nil") /\ pleft' = 0
       ELSE PReturn(outcome) /\ pleft' = pleft
    /\ UNCHANGED <<pkind, ctxDone, polls, plast, curPhase>>
    /\ UNCHANGED notPoll

\* DoDelete, lines 69-85 for the next object: the accessor, c.Delete, the key.
PDelete(outcome) ==
    /\ ppc = "delete"
    /\ outcome \in (IF ctxDone THEN {"noaccessor", "ctx"}
                    ELSE {"noaccessor", "ok", "notfound", "e1", "nokey"})
    /\ IF outcome \in {"ok", "notfound"}
       THEN ppc' = "first" /\ pret' = "none"
       ELSE PReturn(outcome)
    /\ polls' = 0
    /\ papi' = Sent(outcome)
    /\ UNCHANGED <<pkind, pleft, ctxDone, plast, curPhase>>
    /\ UNCHANGED notPoll

\* wait.PollImmediateUntil calls the condition function: at once when the
\* wait begins, later on a tick of the poller. A tick and the closed
\* ctx.Done() can be ready together, and then select may take the tick.
PPoll(get) ==
    /\ ppc \in {"first", "select"}
    /\ get \in Gets(pkind, ctxDone)
    /\ polls < MaxPolls + (IF ctxDone THEN 1 ELSE 0)
    /\ polls' = polls + 1
    /\ plast' = get
    /\ curPhase' = IF pkind = "DoCSVWait" /\ get.err = "nil"
                   THEN get.obj.phase ELSE curPhase
    /\ LET c == Condition24(pkind, get)
       IN IF c.err # "nil" THEN PReturn(c.err) /\ pleft' = pleft
          ELSE IF ~c.done THEN ppc' = "select" /\ pret' = "none"
                               /\ pleft' = pleft
          ELSE IF pkind = "DoDelete" /\ pleft > 1
               THEN ppc' = "delete" /\ pret' = "none" /\ pleft' = pleft - 1
          ELSE PReturn("nil") /\ pleft' = 0
    /\ papi' = IF pkind = "DoDelete" /\ Condition24(pkind, get) = Cond(TRUE, "nil")
               THEN [papi EXCEPT !.gone = @ + 1] ELSE papi
    /\ UNCHANGED <<pkind, ctxDone>>
    /\ UNCHANGED notPoll

\* select takes the closed ctx.Done(): wait.ErrWaitTimeout.
PTimeout ==
    /\ ppc = "select"
    /\ ctxDone
    /\ PReturn("timeout")
    /\ UNCHANGED <<pkind, pleft, ctxDone, polls, plast, curPhase, papi>>
    /\ UNCHANGED notPoll

\* ---------------------------------------------- loadSchema of a chart
\* Charts in one tree of dependencies, at most.
MaxCharts == 4

\* The name of the i-th chart of a tree.
ChartNames == <<"c1", "c2", "c3", "c4", "c5", "c6">>

\* chrt.Schema, the bytes of values.schema.json: none, bytes that are not
\* JSON, or a JSON object with its "$schema", "type" and "properties" (the
\* names of the properties, each of type string; <<>> when the key is absent).
Doc(json, dollar, type, props) ==
    [json |-> json, dollar |-> dollar, type |-> type, props |-> props]

NoDoc == Doc("none", "", "", <<>>)

InvalidDoc == Doc("bad", "", "", <<>>)

SchemaDocs ==
    {NoDoc, InvalidDoc,
     Doc("ok", "draft-07", "", <<>>),
     Doc("ok", "", "string", <<>>),
     Doc("ok", "draft-07", "object", <<{"f"}>>),
     Doc("ok", "", "object", <<{"f", "c2"}>>)}

\* apiextv1.JSONSchemaProps: Properties is a map, <<>> when nil and <<m>>
\* when it is the map m.
Props(schema, type, properties) ==
    [Schema |-> schema, Type |-> type, Properties |-> properties]

EmptyProps == Props("", "", <<>>)

\* json.Unmarshal of a document into a JSONSchemaProps.
Unmarshal(doc) ==
    Props(doc.dollar, doc.type,
          IF doc.props = <<>> THEN <<>>
          ELSE <<[k \in doc.props[1] |-> Props("", "string", <<>>)]>>)

\* Lines 119-122 without the reset of schema.Schema.
ParseSchemaKeepsMeta(doc) == Unmarshal(doc)

\* Lines 119-122 for bytes that parse.
ParseSchema(doc) == [Unmarshal(doc) EXCEPT !.Schema = ""]

\* The charts: chart 1 is the root, chart i > 1 is a dependency of parent[i].
Charts ==
    UNION {[n : {n}, parent : {f \in [1..n -> 0..n] :
                                  \A i \in 1..n : f[i] < i /\ (i > 1 => f[i] > 0)},
            schema : [1..n -> SchemaDocs]] : n \in 1..MaxCharts}

\* chrt.Dependencies() of chart i, in the order they were added.
Dependencies(c, i) == SelectSeq([j \in 1..c.n |-> j], LAMBDA j : c.parent[j] = i)

NoErr == [kind |-> "nil", chart |-> ""]

ParseErr(name) == [kind |-> "parse", chart |-> name]

Loaded(err, isNil, schema) == [err |-> err, isNil |-> isNil, schema |-> schema]

NotLoaded == Loaded([kind |-> "none", chart |-> ""], TRUE, EmptyProps)

RECURSIVE loadSchema(_, _), loadDependencies(_, _, _)

\* The loop of lines 125-137 over the dependencies deps, schema so far.
loadDependencies(c, schema, deps) ==
    IF deps = <<>> THEN Loaded(NoErr, FALSE, schema)
    ELSE LET dep == loadSchema(c, Head(deps))
         IN IF dep.err # NoErr THEN Loaded(dep.err, TRUE, EmptyProps)
            ELSE IF dep.isNil THEN loadDependencies(c, schema, Tail(deps))
            ELSE LET typed == IF schema.Properties = <<>>
                              THEN [schema EXCEPT !.Type = "object",
                                                  !.Properties = <<NoFields>>]
                              ELSE schema
                     put == [typed EXCEPT !.Properties =
                                <<Put(typed.Properties[1],
                                      ChartNames[Head(deps)], dep.schema)>>]
                 IN loadDependencies(c, put, Tail(deps))

loadSchema(c, i) ==
    IF c.schema[i].json = "bad"
    THEN Loaded(ParseErr(ChartNames[i]), TRUE, EmptyProps)
    ELSE LET own == IF c.schema[i].json = "none" THEN EmptyProps
                    ELSE ParseSchema(c.schema[i])
             all == loadDependencies(c, own, Dependencies(c, i))
         IN IF all.err # NoErr THEN all
            ELSE IF all.schema = EmptyProps THEN Loaded(NoErr, TRUE, EmptyProps)
            ELSE all

SchemaIdle ==
    /\ chrt = [n |-> 1, parent |-> <<0>>, schema |-> <<NoDoc>>]
    /\ loaded = NotLoaded

SchemaInit == chrt \in Charts /\ loaded = NotLoaded

DoLoadSchema ==
    /\ loaded = NotLoaded
    /\ loaded' = loadSchema(chrt, 1)
    /\ UNCHANGED chrt
    /\ UNCHANGED notSchema

\* ------------------------------------------------------ the CRD template
\* f.CRDVersion as the caller may set it.
CRDVersions == {"", "v1", "v1beta1", "v2", "invalid"}

ResourceKinds == {"Foo", "Bar"}

\* apiextv1.JSONSchemaProps as the template uses it; XPreserveUnknownFields
\* is a pointer and Properties a map, <<>> when nil.
CRDSchema(description, type, preserve, properties) ==
    [Description |-> description, Type |-> type,
     XPreserveUnknownFields |-> preserve, Properties |-> properties]

CRDSchemas ==
    {CRDSchema(d, t, x, ps) :
        d \in {"", "Custom description"}, t \in {"", "object", "string"},
        x \in {<<>>, <<TRUE>>, <<FALSE>>}, ps \in {<<>>, <<{"test"}>>}}

\* The CRD a caller hands over: f.SpecSchema is <<>> when nil.
CRDs ==
    [Path : {"", "crd.yaml"}, IfExistsAction : {""}, Kind : ResourceKinds,
     CRDVersion : CRDVersions,
     SpecSchema : {<<>>} \cup {<<sch>> : sch \in CRDSchemas},
     TemplateBody : {""}]

DefaultPath == "config/crd/bases/example.com_%[plural].yaml"

\* f.Resource.Replacer().Replace for a resource with plural "foos".
Replace(path) ==
    IF path = DefaultPath THEN "config/crd/bases/example.com_foos.yaml"
    ELSE path

specDescription(kind) == "Spec defines the desired state of " \o kind

\* A SetTemplateDefaults that writes the description over a given one.
SetTemplateDefaultsOverwrites(f) ==
    LET schema == IF f.SpecSchema = <<>>
                  THEN <<CRDSchema(specDescription(f.Kind), "object",
                                   <<TRUE>>, <<>>)>>
                  ELSE <<[f.SpecSchema[1] EXCEPT
                             !.Description = specDescription(f.Kind)]>>
        g == [f EXCEPT !.Path = Replace(IF @ = "" THEN DefaultPath ELSE @),
                       !.IfExistsAction = "Error", !.SpecSchema = schema]
    IN IF f.CRDVersion \in {"", "v1"}
       THEN [f |-> [g EXCEPT !.TemplateBody = "crdTemplateV1"], err |-> "nil"]
       ELSE IF f.CRDVersion = "v1beta1"
       THEN [f |-> [g EXCEPT !.TemplateBody = "crdTemplateV1Beta1"],
             err |-> "nil"]
       ELSE [f |-> g, err |-> "version"]

SetTemplateDefaults(f) ==
    LET schema == IF f.SpecSchema = <<>>
                  THEN <<CRDSchema(specDescription(f.Kind), "object",
                                   <<TRUE>>, <<>>)>>
                  ELSE IF f.SpecSchema[1].Description = ""
                  THEN <<[f.SpecSchema[1] EXCEPT
                             !.Description = specDescription(f.Kind)]>>
                  ELSE f.SpecSchema
        g == [f EXCEPT !.Path = Replace(IF @ = "" THEN DefaultPath ELSE @),
                       !.IfExistsAction = "Error", !.SpecSchema = schema]
    IN IF f.CRDVersion \in {"", "v1"}
       THEN [f |-> [g EXCEPT !.TemplateBody = "crdTemplateV1"], err |-> "nil"]
       ELSE IF f.CRDVersion = "v1beta1"
       THEN [f |-> [g EXCEPT !.TemplateBody = "crdTemplateV1Beta1"],
             err |-> "nil"]
       ELSE [f |-> g, err |-> "version"]

CrdInit == crdIn \in CRDs /\ crd = crdIn /\ crdErr = "none"

CrdIdle ==
    /\ crdIn = [Path |-> "", IfExistsAction |-> "", Kind |-> "Foo",
                CRDVersion |-> "", SpecSchema |-> <<>>, TemplateBody |-> ""]
    /\ crd = crdIn
    /\ crdErr = "none"

DoSetTemplateDefaults ==
    /\ crdErr = "none"
    /\ LET r == SetTemplateDefaults(crd)
       IN crd' = r.f /\ crdErr' = r.err
    /\ UNCHANGED crdIn
    /\ UNCHANGED notCrd

\* ------------------------------------------------ the client Configuration
\* The kubeconfig files on disk: the server and the namespace of the current
\* context ("" when the context names none).
RecommendedHomeFile == "/tmp/recommended"

Kubeconfigs ==
    [p \in {RecommendedHomeFile, "/tmp/override", "/tmp/bare"} |->
        IF p = RecommendedHomeFile
        THEN [Host |-> "https://recommended:6443", Namespace |-> "recommended-goo"]
        ELSE IF p = "/tmp/override"
        THEN [Host |-> "https://override:6443", Namespace |-> "override-goo"]
        ELSE [Host |-> "https://bare:6443", Namespace |-> ""]]

\* A Configuration: RESTConfig and overrides are pointers, <<>> when nil;
\* overrides holds the namespace a bound flag was given.
Configuration(namespace, path, overrides) ==
    [Namespace |-> namespace, KubeconfigPath |-> path, RESTConfig |-> <<>>,
     Client |-> FALSE, Scheme |-> FALSE, overrides |-> overrides]

\* What Load starts from: the Configuration, $KUBECONFIG, whether the
\* recommended home file exists, and the step after the kubeconfig that fails.
ConfInputs ==
    [cfg : {Configuration(ns, path, o) :
               ns \in {"", "userspecified"},
               path \in {"", "/tmp/override", "/tmp/doesnotexist"},
               o \in {<<>>, <<"">>, <<"flagns">>}},
     KUBECONFIG : {"", "/tmp/override", "/tmp/bare", "/tmp/doesnotexist"},
     home : BOOLEAN,
     fail : {"none", "scheme", "mapper", "client"}]

\* loadingRules.Load(): an explicit path has to exist; otherwise the file of
\* $KUBECONFIG, or the recommended home file, is read if it exists.
LoadingRules(explicit, in) ==
    IF explicit # ""
    THEN IF explicit \in DOMAIN Kubeconfigs
         THEN [err |-> "nil", config |-> <<Kubeconfigs[explicit]>>]
         ELSE [err |-> "notexist", config |-> <<>>]
    ELSE LET file == IF in.KUBECONFIG # "" THEN in.KUBECONFIG
                     ELSE IF in.home THEN RecommendedHomeFile ELSE ""
         IN [err |-> "nil",
             config |-> IF file \in DOMAIN Kubeconfigs
                        THEN <<Kubeconfigs[file]>> ELSE <<>>]

\* cfg.Namespace(): the overridden namespace, else that of the current
\* context, else "default".
ClientNamespace(config, overrides) ==
    IF overrides # "" THEN overrides
    ELSE IF config.Namespace = "" THEN "default"
    ELSE config.Namespace

\* A Load that takes the namespace of the client configuration in any case.
LoadTakesNamespace(c, in) ==
    LET d == [c EXCEPT !.overrides = IF @ = <<>> THEN <<"">> ELSE @]
        merged == LoadingRules(c.KubeconfigPath, in)
    IN IF merged.err # "nil" THEN [c |-> d, err |-> merged.err]
       ELSE IF merged.config = <<>> THEN [c |-> d, err |-> "invalid"]
       ELSE IF in.fail # "none" THEN [c |-> d, err |-> in.fail]
       ELSE [c |-> [d EXCEPT
                       !.Scheme = TRUE, !.Client = TRUE,
                       !.Namespace = ClientNamespace(merged.config[1],
                                                     d.overrides[1]),
                       !.RESTConfig = <<[Host |-> merged.config[1].Host]>>],
             err |-> "nil"]

Load(c, in) ==
    LET d == [c EXCEPT !.overrides = IF @ = <<>> THEN <<"">> ELSE @]
        merged == LoadingRules(c.KubeconfigPath, in)
    IN IF merged.err # "nil" THEN [c |-> d, err |-> merged.err]
       ELSE IF merged.config = <<>> THEN [c |-> d, err |-> "invalid"]
       ELSE IF in.fail # "none" THEN [c |-> d, err |-> in.fail]
       ELSE [c |-> [d EXCEPT
                       !.Scheme = TRUE, !.Client = TRUE,
                       !.Namespace =
                           IF @ = ""
                           THEN ClientNamespace(merged.config[1],
                                                d.overrides[1])
                           ELSE @,
                       !.RESTConfig = <<[Host |-> merged.config[1].Host]>>],
             err |-> "nil"]

ConfInit == confIn \in ConfInputs /\ conf = confIn.cfg /\ confErr = "none"

ConfIdle ==
    /\ confIn = [cfg |-> Configuration("", "", <<>>), KUBECONFIG |-> "",
                 home |-> TRUE, fail |-> "none"]
    /\ conf = confIn.cfg
    /\ confErr = "none"

DoLoad ==
    /\ confErr = "none"
    /\ LET r == Load(conf, confIn)
       IN conf' = r.c /\ confErr' = r.err
    /\ UNCHANGED confIn
    /\ UNCHANGED notConf

\* ------------------------------------------------- the OLM installer
\* ClusterServiceVersions in the list of one namespace, at most.
MaxCsvs == 2

\* A string is the sequence of its parts: "packageserver.v0.10.1" is
\* <<"packageserver", ".", "v", "0.10.1">>, the empty string is <<>>.
HasPrefix(s, p) == Len(p) <= Len(s) /\ SubSeq(s, 1, Len(p)) = p

\* strings.TrimPrefix.
TrimPrefix(s, p) == IF HasPrefix(s, p) THEN SubSeq(s, Len(p) + 1, Len(s)) ELSE s

pkgServerCSVOldNamePrefix == <<"packageserver", ".">>

pkgServerCSVNewName == <<"packageserver">>

pkgServerOLMVersionLabel == "olm.version"

\* The parts that are a semantic version, as semver.Parse sees them.
SemverParts == {"0.10.1", "0.11.0"}

\* semver.Parse returns no error.
ValidSemver(s) == Len(s) = 1 /\ s[1] \in SemverParts

CsvNames ==
    {<<"packageserver">>,
     <<"packageserver", ".", "v", "0.10.1">>,
     <<"packageserver", ".", "0.10.1">>,
     <<"packageserver", ".", "v", "v", "0.10.1">>,
     <<"packageserver", ".", "x">>,
     <<"packageserver", "x">>,
     <<"etcd">>}

\* The labels of a CSV: a map that has the key olm.version or has not.
CsvLabels ==
    {[k \in {} |-> <<>>]}
        \cup {[k \in {pkgServerOLMVersionLabel} |-> v] :
                  v \in {<<"0.11.0">>, <<>>}}

Csvs == [name : CsvNames, labels : CsvLabels]

ListResult(err, items) == [err |-> err, items |-> items]

\* What c.List gives: an error, or the CSVs of the namespace, whose names
\* differ.
ListResults ==
    {ListResult(e, <<>>) : e \in {"notfound", "nomatch", "e1"}}
        \cup {ListResult("nil", items) :
                  items \in {l \in SeqsUpTo(Csvs, MaxCsvs) :
                                \A j, k \in 1..Len(l) :
                                    l[j].name = l[k].name => j = k}}

Version(ver, err) == [ver |-> ver, err |-> err]

\* A version read from the name in preference to the label.
getOLMVersionNameFirst(csv) ==
    LET ver == TrimPrefix(TrimPrefix(csv.name, pkgServerCSVOldNamePrefix),
                          <<"v">>)
    IN IF ValidSemver(ver) THEN Version(ver, "nil")
       ELSE IF pkgServerOLMVersionLabel \in DOMAIN csv.labels
            THEN Version(csv.labels[pkgServerOLMVersionLabel], "nil")
            ELSE Version(<<>>, "noversion")

getOLMVersionFromPackageServerCSV(csv) ==
    IF pkgServerOLMVersionLabel \in DOMAIN csv.labels
    THEN Version(csv.labels[pkgServerOLMVersionLabel], "nil")
    ELSE LET ver == TrimPrefix(TrimPrefix(csv.name, pkgServerCSVOldNamePrefix),
                               <<"v">>)
         IN IF ValidSemver(ver) THEN Version(ver, "nil")
            ELSE Version(<<>>, "noversion")

\* The loop of GetInstalledVersion from item i on; found is pkgServerCSV,
\* <<>> while it is nil.
RECURSIVE PkgServerScan(_, _, _)
PkgServerScan(items, i, found) ==
    IF i > Len(items)
    THEN IF found = <<>> THEN Version(<<>>, "ErrOLMNotInstalled")
         ELSE getOLMVersionFromPackageServerCSV(found[1])
    ELSE LET name == items[i].name
         IN IF name = pkgServerCSVNewName
                \/ HasPrefix(name, pkgServerCSVOldNamePrefix)
            THEN IF found # <<>> THEN Version(<<>>, "morethanone")
                 ELSE PkgServerScan(items, i + 1, <<items[i]>>)
            ELSE PkgServerScan(items, i + 1, found)

\* Client.GetInstalledVersion.
GetInstalledVersion(list) ==
    IF list.err # "nil"
    THEN IF list.err \in {"notfound", "nomatch"}
         THEN Version(<<>>, "ErrOLMNotInstalled")
         ELSE Version(<<>>, "listfailed")
    ELSE PkgServerScan(list.items, 1, <<>>)

\* What a call of the Manager leaves: the error returned, m.Version, and the
\* calls of UninstallVersion or GetStatus made, with their version.
Resolved(err, version, acted) ==
    [err |-> err, Version |-> version, acted |-> acted]

\* A resolution that lets the supplied version win over the detected one.
ResolveSuppliedWins(act, supplied, installed, actErr) ==
    IF installed.err # "nil" /\ supplied = <<>>
    THEN Resolved("undetermined", supplied, <<>>)
    ELSE LET v == IF supplied # <<>> THEN supplied ELSE installed.ver
         IN Resolved(actErr, v, <<[call |-> act, version |-> v]>>)

\* Lines 50-64 and 71-86: the version is resolved, then act (UninstallVersion
\* or GetStatus) is called with it and returns actErr.
Resolve(act, supplied, installed, actErr) ==
    LET Proceed(v) == Resolved(actErr, v, <<[call |-> act, version |-> v]>>)
    IN IF installed.err # "nil"
       THEN IF supplied = <<>> THEN Resolved("undetermined", supplied, <<>>)
            ELSE Proceed(supplied)
       ELSE IF supplied # <<>>
            THEN IF installed.ver # supplied
                 THEN Resolved("mismatch", supplied, <<>>)
                 ELSE Proceed(supplied)
            ELSE Proceed(installed.ver)

\* The versions a user supplies with --version; <<>> is none.
SuppliedVersions == {<<>>, <<"0.10.1">>, <<"0.11.0">>}

NoOlmCall == [op |-> "none", installed |-> Version(<<>>, "nil"),
              res |-> Resolved("nil", <<>>, <<>>)]

OlmInit ==
    /\ olmIn \in [list : ListResults, Version : SuppliedVersions]
    /\ olmOut = NoOlmCall

OlmIdle ==
    /\ olmIn = [list |-> ListResult("nil", <<>>), Version |-> <<>>]
    /\ olmOut = NoOlmCall

DoGetInstalledVersion ==
    /\ olmOut.op = "none"
    /\ olmOut' = [op |-> "GetInstalledVersion",
                  installed |-> GetInstalledVersion(olmIn.list),
                  res |-> Resolved("nil", olmIn.Version, <<>>)]
    /\ UNCHANGED olmIn
    /\ UNCHANGED notOlm

\* Manager.Uninstall; actErr is what UninstallVersion returns when called.
DoUninstall(actErr) ==
    /\ olmOut.op = "none"
    /\ LET installed == GetInstalledVersion(olmIn.list)
       IN olmOut' = [op |-> "Uninstall", installed |-> installed,
                     res |-> Resolve("UninstallVersion", olmIn.Version,
                                     installed, actErr)]
    /\ UNCHANGED olmIn
    /\ UNCHANGED notOlm

\* Manager.Status; actErr is what GetStatus returns when called.
DoStatus(actErr) ==
    /\ olmOut.op = "none"
    /\ LET installed == GetInstalledVersion(olmIn.list)
       IN olmOut' = [op |-> "Status", installed |-> installed,
                     res |-> Resolve("GetStatus", olmIn.Version, installed,
                                     actErr)]
    /\ UNCHANGED olmIn
    /\ UNCHANGED notOlm

\* -------------------------------- the logging owner-enqueue handler
\* Owner references on one object, at most.
MaxRefs == 2

\* An apiVersion is the sequence of its parts between the "/": "v1" is
\* <<"v1">>, "g1/v1" is <<"g1", "v1">>.
ApiVersions == {<<"v1">>, <<"g1", "v1">>, <<"g1", "v2">>, <<"a", "b", "c">>}

GroupVersion(group, version) == [Group |-> group, Version |-> version]

\* schema.ParseGroupVersion: no "/" is a version of the core group, one "/"
\* is group and version, anything else is an error with the empty value.
ParseGroupVersion(av) ==
    IF Len(av) = 0 THEN [gv |-> GroupVersion("", ""), err |-> FALSE]
    ELSE IF Len(av) = 1 THEN [gv |-> GroupVersion("", av[1]), err |-> FALSE]
    ELSE IF Len(av) = 2 THEN [gv |-> GroupVersion(av[1], av[2]), err |-> FALSE]
    ELSE [gv |-> GroupVersion("", ""), err |-> TRUE]

OwnerReference(av, kind, name) == [APIVersion |-> av, Kind |-> kind, Name |-> name]

OwnerReferences ==
    {OwnerReference(<<"g1", "v1">>, "K1", "own"),
     OwnerReference(<<"g1", "v2">>, "K1", "own"),
     OwnerReference(<<"g1", "v1">>, "K2", "own"),
     OwnerReference(<<"v1">>, "K1", "own"),
     OwnerReference(<<"a", "b", "c">>, "K1", "own")}

\* The objects of the notifications: one name, with or without namespace.
LoggedObjects ==
    [name : {"o"}, ns : {"", "ns1"}, refs : SeqsUpTo(OwnerReferences, MaxRefs)]

\* h.ownerType's GroupVersionKind: a kind of the group g1 or of the core group.
OwnerTypes == [Group : {"g1", ""}, Version : {"v1"}, Kind : {"K1"}]

\* A comparison that looks at the version as well.
TypedMatchVersioned(gvk, ref) ==
    /\ gvk.Group = ParseGroupVersion(ref.APIVersion).gv.Group
    /\ gvk.Version = ParseGroupVersion(ref.APIVersion).gv.Version
    /\ gvk.Kind = ref.Kind

\* The comparison of lines 101-102.
TypedMatch(gvk, ref) ==
    /\ gvk.Group = ParseGroupVersion(ref.APIVersion).gv.Group
    /\ gvk.Kind = ref.Kind

\* The first index from j on whose reference has the owner's group and kind,
\* 0 when there is none.
RECURSIVE FirstTyped(_, _, _)
FirstTyped(gvk, refs, j) ==
    IF j > Len(refs) THEN 0
    ELSE IF TypedMatch(gvk, refs[j]) THEN j
    ELSE FirstTyped(gvk, refs, j + 1)

Extracted(ref, errs) == [ref |-> ref, errs |-> errs]

\* extractTypedOwnerReference: the reference found (<<>> for nil) and the
\* apiVersions reported as unparsable on the way.
extractTypedOwnerReference(gvk, refs) ==
    LET j == FirstTyped(gvk, refs, 1)
        seen == IF j = 0 THEN refs ELSE SubSeq(refs, 1, j)
        bad == SelectSeq(seen, LAMBDA r : ParseGroupVersion(r.APIVersion).err)
    IN Extracted(IF j = 0 THEN <<>> ELSE <<refs[j]>>,
                 [k \in 1..Len(bad) |-> bad[k].APIVersion])

\* The record of log.V(1).Info: Namespace is there when it is not empty.
LogRecord(eventType, object, ref) ==
    [EventType |-> eventType, Name |-> object.name,
     Namespace |-> IF object.ns # "" THEN <<object.ns>> ELSE <<>>,
     OwnerAPIVersion |-> ref.APIVersion, OwnerKind |-> ref.Kind,
     OwnerName |-> ref.Name]

\* logEvent; newObject is <<>> for nil. What it writes: the records and
\* the parse errors.
logEvent(gvk, eventType, object, newObject) ==
    LET first == extractTypedOwnerReference(gvk, object.refs)
        second == IF first.ref = <<>> /\ newObject # <<>>
                  THEN extractTypedOwnerReference(gvk, newObject[1].refs)
                  ELSE Extracted(first.ref, <<>>)
    IN [logged |-> IF second.ref # <<>>
                   THEN <<LogRecord(eventType, object, second.ref[1])>>
                   ELSE <<>>,
        errs |-> first.errs \o second.errs]

Notification(method, e) == [method |-> method, e |-> e]

LogInit ==
    /\ ownerType \in OwnerTypes
    /\ handled = <<>> /\ forwarded = <<>> /\ logged = <<>> /\ parseErrs = <<>>

LogIdle ==
    /\ ownerType = [Group |-> "g1", Version |-> "v1", Kind |-> "K1"]
    /\ handled = <<>> /\ forwarded = <<>> /\ logged = <<>> /\ parseErrs = <<>>

\* A method of the handler: logEvent, then the same method of the wrapped
\* EventHandler with the notification it was given.
Handle(method, e, object, newObject) ==
    /\ handled = <<>>
    /\ handled' = Append(handled, Notification(method, e))
    /\ LET w == logEvent(ownerType, method, object, newObject)
       IN logged' = logged \o w.logged /\ parseErrs' = parseErrs \o w.errs
    /\ forwarded' = Append(forwarded, Notification(method, e))
    /\ UNCHANGED ownerType
    /\ UNCHANGED notLog

OwnerCreate(o) == Handle("Create", [Object |-> o], o, <<>>)

OwnerUpdate(old, new) ==
    /\ old.ns = new.ns
    /\ Handle("Update", [ObjectOld |-> old, ObjectNew |-> new], old, <<new>>)

OwnerDelete(o) == Handle("Delete", [Object |-> o], o, <<>>)

OwnerGeneric(o) == Handle("Generic", [Object |-> o], o, <<>>)

ExtIdle == OlmIdle /\ LogIdle

ToolIdle == PollIdle /\ SchemaIdle /\ CrdIdle /\ ConfIdle /\ ExtIdle

\* ------------------------------------------- callers sharing one Manager
\* The resources, each reconciled by its own caller.
Resources == {"r1", "r2"}

\* The lists the resources start with.
ConcLists == {<<"a", "b">>, <<"b">>}

\* The registrations the Manager starts with.
ConcRegistries ==
    {NewManager, [n \in Names |-> "A1"],
     [n \in Names |-> IF n = "b" THEN "A1" ELSE None]}

NoOp == [op |-> "none", name |-> None, failAt |-> 0]

NoOut == [err |-> "nil", ret |-> FALSE, invoked |-> <<>>, sets |-> 0]

Out(err, ret, invoked, sets) ==
    [err |-> err, ret |-> ret, invoked |-> invoked, sets |-> sets]

\* sync.RWMutex: RLock waits while a writer holds the lock or waits for it,
\* Lock waits for the readers to leave.
CanRLock ==
    wpc = "idle" /\ \A r \in Resources : cpc[r] \notin {"nwait", "nheld"}

CanLock ==
    readers = 0 /\ wpc # "held" /\ \A r \in Resources : cpc[r] # "nheld"

\* An RUnlock that leaves the reader count as it is.
ReleaseReadLeaks(n) == n

ReleaseRead(n) == n - 1

\* No caller is in a call.
ConcQuiet ==
    /\ cpc = [r \in Resources |-> "idle"]
    /\ cop = [r \in Resources |-> NoOp]
    /\ cpre = [r \in Resources |-> <<>>]
    /\ cwork = [r \in Resources |-> <<>>]
    /\ cidx = [r \in Resources |-> 1]
    /\ cf = [r \in Resources |-> None]
    /\ cinv = [r \in Resources |-> <<>>]
    /\ cout = [r \in Resources |-> NoOut]
    /\ readers = 0
    /\ wpc = "idle"
    /\ warg = <<None, None>>
    /\ ccalls = 0

ConcInit == clist \in [Resources -> ConcLists] /\ ConcQuiet

ConcIdle == clist = [r \in Resources |-> <<>>] /\ ConcQuiet

OtherIdle == PredIdle /\ RelIdle /\ ConcIdle /\ ToolIdle

\* The names the call of r in progress depends on.
Involved(r) ==
    IF cpc[r] = "idle" THEN {}
    ELSE IF cop[r].op = "Finalize" THEN Range(cpre[r])
    ELSE IF cop[r].op = "FinalizeOne" THEN {cop[r].name}
    ELSE {}

\* The call of r returns.
Return(r, list, out) ==
    /\ cpc' = [cpc EXCEPT ![r] = "idle"]
    /\ clist' = [clist EXCEPT ![r] = list]
    /\ cout' = [cout EXCEPT ![r] = out]
    /\ cwork' = [cwork EXCEPT ![r] = <<>>]
    /\ cidx' = [cidx EXCEPT ![r] = 1]
    /\ cinv' = [cinv EXCEPT ![r] = <<>>]
    /\ cf' = [cf EXCEPT ![r] = None]
    /\ cop' = [cop EXCEPT ![r] = NoOp]
    /\ cpre' = [cpre EXCEPT ![r] = <<>>]

\* The head of Finalize's loop: SetFinalizers(toFinalize) and return when
\* the index has passed the end, the lookup of the next name otherwise.
Advance(r, list, work, idx, inv) ==
    IF idx > Len(work)
    THEN Return(r, work, Out("nil", FALSE, inv, 1))
    ELSE /\ cpc' = [cpc EXCEPT ![r] = "rlock"]
         /\ clist' = [clist EXCEPT ![r] = list]
         /\ cwork' = [cwork EXCEPT ![r] = work]
         /\ cidx' = [cidx EXCEPT ![r] = idx]
         /\ cinv' = [cinv EXCEPT ![r] = inv]
         /\ cf' = [cf EXCEPT ![r] = None]
         /\ UNCHANGED <<cout, cop, cpre>>

\* A caller enters Finalize, FinalizeOne or Reconcile. No registration of a
\* name the call depends on is under way.
CStart(r, op, name, failAt) ==
    /\ cpc[r] = "idle"
    /\ ccalls < MaxCalls
    /\ ccalls' = ccalls + 1
    /\ op = "Finalize" => (name = None /\ failAt <= Len(clist[r]))
    /\ op = "FinalizeOne" => (name # None /\ failAt <= 1)
    /\ op = "Reconcile" => (name = None /\ failAt = 0)
    /\ wpc # "idle" =>
           /\ op = "Finalize" => warg[1] \notin Range(clist[r])
           /\ op = "FinalizeOne" => warg[1] # name
    /\ IF op = "Finalize" /\ clist[r] = <<>>
       THEN Return(r, <<>>, Out("nil", FALSE, <<>>, 1))
       ELSE /\ cop' = [cop EXCEPT ![r] =
                          [op |-> op, name |-> name, failAt |-> failAt]]
            /\ cpre' = [cpre EXCEPT ![r] = clist[r]]
            /\ cpc' = [cpc EXCEPT ![r] = "rlock"]
            /\ cwork' = [cwork EXCEPT ![r] = clist[r]]
            /\ cout' = [cout EXCEPT ![r] = NoOut]
            /\ UNCHANGED <<clist, cidx, cinv, cf>>
    /\ UNCHANGED <<readers, wpc, warg>>
    /\ UNCHANGED <<finVars, hookVars, predVars, relVars, toolVars>>

\* fm.mutex.RLock() and the read of fm.finalizers under it.
CRLock(r) ==
    /\ cpc[r] = "rlock"
    /\ UNCHANGED ccalls
    /\ CanRLock
    /\ readers' = readers + 1
    /\ cf' = [cf EXCEPT ![r] =
                 IF cop[r].op = "Finalize" THEN registry[cwork[r][cidx[r]]]
                 ELSE IF cop[r].op = "FinalizeOne" THEN registry[cop[r].name]
                 ELSE IF Reconcile(clist[r], registry).added THEN "added"
                 ELSE "same"]
    /\ cpc' = [cpc EXCEPT ![r] = "runlock"]
    /\ UNCHANGED <<clist, cop, cpre, cwork, cidx, cinv, cout, wpc, warg>>
    /\ UNCHANGED <<finVars, hookVars, predVars, relVars, toolVars>>

\* A Finalize that keeps the read lock while the action runs.
CRUnlockDeferred(r) ==
    /\ cpc[r] = "runlock"
    /\ UNCHANGED ccalls
    /\ readers' = IF cop[r].op # "Reconcile" /\ cf[r] # None THEN readers
                  ELSE ReleaseRead(readers)
    /\ IF cop[r].op = "Reconcile"
       THEN Return(r, clist[r], Out("nil", cf[r] = "added", <<>>, 0))
       ELSE IF cf[r] # None
       THEN /\ cpc' = [cpc EXCEPT ![r] = "act"]
            /\ UNCHANGED <<clist, cwork, cidx, cinv, cf, cout, cop, cpre>>
       ELSE IF cop[r].op = "FinalizeOne"
       THEN Return(r, clist[r], Out("ErrNotFound", FALSE, <<>>, 0))
       ELSE Advance(r, clist[r], cwork[r], cidx[r] + 1, cinv[r])
    /\ UNCHANGED <<wpc, warg>>
    /\ UNCHANGED <<finVars, hookVars, predVars, relVars, toolVars>>

\* fm.mutex.RUnlock() and what follows it up to the next call of an action.
CRUnlock(r) ==
    /\ cpc[r] = "runlock"
    /\ UNCHANGED ccalls
    /\ readers' = ReleaseRead(readers)
    /\ IF cop[r].op = "Reconcile"
       THEN Return(r, clist[r], Out("nil", cf[r] = "added", <<>>, 0))
       ELSE IF cf[r] # None
       THEN /\ cpc' = [cpc EXCEPT ![r] = "act"]
            /\ UNCHANGED <<clist, cwork, cidx, cinv, cf, cout, cop, cpre>>
       ELSE IF cop[r].op = "FinalizeOne"
       THEN Return(r, clist[r], Out("ErrNotFound", FALSE, <<>>, 0))
       ELSE Advance(r, clist[r], cwork[r], cidx[r] + 1, cinv[r])
    /\ UNCHANGED <<wpc, warg>>
    /\ UNCHANGED <<finVars, hookVars, predVars, relVars, toolVars>>

\* f.Finalize(finalizable) and what follows it up to the next lookup.
CAct(r) ==
    /\ cpc[r] \in {"act", "acted"}
    /\ UNCHANGED ccalls
    /\ LET name == IF cop[r].op = "Finalize" THEN cwork[r][cidx[r]]
                   ELSE cop[r].name
           inv == Append(cinv[r], <<name, cf[r]>>)
       IN  IF Len(inv) = cop[r].failAt
           THEN Return(r, clist[r], Out("err", FALSE, inv, 0))
           ELSE IF cop[r].op = "FinalizeOne"
           THEN LET hits == {j \in 1..Len(clist[r]) : clist[r][j] = name}
                IN  Return(r,
                           IF hits = {} THEN clist[r]
                           ELSE RemoveAt(clist[r],
                                    CHOOSE j \in hits : \A k \in hits : j <= k),
                           Out("nil", FALSE, inv, 1))
           ELSE Advance(r,
                        IF alias
                        THEN ShiftAliased(clist[r], cidx[r], Len(cwork[r]))
                        ELSE clist[r],
                        RemoveAt(cwork[r], cidx[r]), cidx[r], inv)
    /\ UNCHANGED <<readers, wpc, warg>>
    /\ UNCHANGED <<finVars, hookVars, predVars, relVars, toolVars>>

\* RegisterFinalizer is called for a name no call in progress depends on:
\* fm.mutex.Lock() is requested.
WRequest(name, f) ==
    /\ wpc = "idle"
    /\ ccalls < MaxCalls
    /\ ccalls' = ccalls + 1
    /\ \A r \in Resources : name \notin Involved(r)
    /\ wpc' = "wait"
    /\ warg' = <<name, f>>
    /\ UNCHANGED <<clist, cpc, cop, cpre, cwork, cidx, cf, cinv, cout, readers>>
    /\ UNCHANGED <<finVars, hookVars, predVars, relVars, toolVars>>

\* The lock is granted and fm.finalizers[name] = f is stored.
WAcquire ==
    /\ wpc = "wait"
    /\ UNCHANGED ccalls
    /\ CanLock
    /\ registry' = RegisterFinalizer(registry, warg[1], warg[2])
    /\ wpc' = "held"
    /\ UNCHANGED <<fins, alias, last, prior>>
    /\ UNCHANGED <<clist, cpc, cop, cpre, cwork, cidx, cf, cinv, cout, readers,
                   warg>>
    /\ UNCHANGED <<hookVars, predVars, relVars, toolVars>>

\* The deferred fm.mutex.Unlock().
WRelease ==
    /\ wpc = "held"
    /\ UNCHANGED ccalls
    /\ wpc' = "idle"
    /\ warg' = <<None, None>>
    /\ UNCHANGED <<clist, cpc, cop, cpre, cwork, cidx, cf, cinv, cout, readers>>
    /\ UNCHANGED <<finVars, hookVars, predVars, relVars, toolVars>>

\* The registration a finalize action makes on the Manager that invoked it.
NestedName == "c"
NestedAction == "A2"

\* The action running for r calls fm.RegisterFinalizer: fm.mutex.Lock() is
\* requested.
CNestRequest(r) ==
    /\ cpc[r] = "act"
    /\ cpc' = [cpc EXCEPT ![r] = "nwait"]
    /\ UNCHANGED <<clist, cop, cpre, cwork, cidx, cf, cinv, cout, readers, wpc,
                   warg, ccalls>>
    /\ UNCHANGED <<finVars, hookVars, predVars, relVars, toolVars>>

\* Its lock is granted and the registration stored.
CNestAcquire(r) ==
    /\ cpc[r] = "nwait"
    /\ CanLock
    /\ registry' = RegisterFinalizer(registry, NestedName, NestedAction)
    /\ cpc' = [cpc EXCEPT ![r] = "nheld"]
    /\ UNCHANGED <<fins, alias, last, prior>>
    /\ UNCHANGED <<clist, cop, cpre, cwork, cidx, cf, cinv, cout, readers, wpc,
                   warg, ccalls>>
    /\ UNCHANGED <<hookVars, predVars, relVars, toolVars>>

\* The deferred Unlock of that RegisterFinalizer; the action goes on.
CNestRelease(r) ==
    /\ cpc[r] = "nheld"
    /\ cpc' = [cpc EXCEPT ![r] = "acted"]
    /\ UNCHANGED <<clist, cop, cpre, cwork, cidx, cf, cinv, cout, readers, wpc,
                   warg, ccalls>>
    /\ UNCHANGED <<finVars, hookVars, predVars, relVars, toolVars>>

CNest(r) == CNestRequest(r) \/ CNestAcquire(r) \/ CNestRelease(r)

\* ------------------------------------------------------------ call records
\* reg and pre are the registry and the resource's list before the call.
Call(op, name, action, reg, pre, err, ret, invoked, sets) ==
    [op |-> op, name |-> name, action |-> action, reg |-> reg, pre |-> pre,
     err |-> err, ret |-> ret, invoked |-> invoked, sets |-> sets]

NoCall == Call("none", None, None, NewManager, <<>>, "nil", FALSE, <<>>, 0)

\* The call c is remembered as prior when the call that follows repeats it
\* (same operation, same name) or when c is a registration followed by a
\* Finalize or FinalizeOne.
Related(c, op, name) ==
    \/ c.op = op /\ c.name = name
    \/ c.op = "Register" /\ op \in {"Finalize", "FinalizeOne"}

Prior(op, name) == IF Related(last, op, name) THEN last ELSE NoCall

\* ------------------------------------------------------------------ actions
FinInit ==
    /\ registry = NewManager
    /\ fins \in {s \in SeqsUpTo(Names, MaxLen) : NoDup(s)}
    /\ alias \in BOOLEAN
    /\ last = NoCall
    /\ prior = NoCall

DoRegister(name, f) ==
    /\ registry' = RegisterFinalizer(registry, name, f)
    /\ last' = Call("Register", name, f, registry, fins, "nil", FALSE,
                    <<>>, 0)
    /\ prior' = Prior("Register", name)
    /\ UNCHANGED <<fins, alias>>
    /\ UNCHANGED <<hookVars, otherVars>>

DoFinalize(failAt) ==
    LET r == Finalize(fins, failAt, registry, alias) IN
    /\ fins' = r.fins
    /\ last' = Call("Finalize", None, None, registry, fins, r.err, FALSE,
                    r.invoked, r.sets)
    /\ prior' = Prior("Finalize", None)
    /\ UNCHANGED <<registry, alias>>
    /\ UNCHANGED <<hookVars, otherVars>>

DoFinalizeOne(name, fails) ==
    LET r == FinalizeOne(fins, name, fails, registry) IN
    /\ fins' = r.fins
    /\ last' = Call("FinalizeOne", name, None, registry, fins, r.err, FALSE,
                    r.invoked, r.sets)
    /\ prior' = Prior("FinalizeOne", name)
    /\ UNCHANGED <<registry, alias>>
    /\ UNCHANGED <<hookVars, otherVars>>

DoReconcile ==
    LET r == Reconcile(fins, registry) IN
    /\ fins' = r.fins
    /\ last' = Call("Reconcile", None, None, registry, fins, "nil", r.added,
                    <<>>, r.sets)
    /\ prior' = Prior("Reconcile", None)
    /\ UNCHANGED <<registry, alias>>
    /\ UNCHANGED <<hookVars, otherVars>>

DoReconcileOne(name) ==
    LET r == ReconcileOne(fins, name) IN
    /\ Len(r.fins) <= MaxLen
    /\ fins' = r.fins
    /\ last' = Call("ReconcileOne", name, None, registry, fins, "nil", r.added,
                    <<>>, r.sets)
    /\ prior' = Prior("ReconcileOne", name)
    /\ UNCHANGED <<registry, alias>>
    /\ UNCHANGED <<hookVars, otherVars>>

\* A Finalize call one of whose actions adds the finalizer name new.
DoFinalizeAdding(failAt, addAt, new, realloc) ==
    /\ new \notin Range(fins)
    /\ failAt # addAt
    /\ realloc => alias
    /\ addAt <= Len(Restrict(fins, Registered(registry)))
    /\ failAt <= Len(Restrict(fins, Registered(registry)))
    /\ LET r == FinalizeAdding(fins, failAt, addAt, new, realloc, registry,
                               alias)
       IN  /\ Len(r.fins) <= MaxLen
           /\ fins' = r.fins
           /\ last' = Call("Finalize", new, None, registry, fins, r.err,
                           r.added, r.invoked, r.sets)
    /\ prior' = Prior("Finalize", new)
    /\ UNCHANGED <<registry, alias>>
    /\ UNCHANGED <<hookVars, otherVars>>

\* ------------------------------------------------------- the release hook
\* Documents a release manifest can hold at most.
MaxDocs == 2
\* Errors the REST mapper and c.Watch return at most in one behaviour.
MaxFailures == 2

Kinds == {"Deployment", "Service", "ClusterRole"}
\* A document that yaml's Decode rejects.
BadDoc == "bad"
Docs == Kinds \cup {BadDoc}
Manifests == SeqsUpTo(Docs, MaxDocs)
Hooks == {"h1", "h2"}

\* depMapping.Scope.Name() == meta.RESTScopeNameRoot
DepClusterScoped(kind) == kind = "ClusterRole"

\* A test that lets every combination of scopes be watched.
ScopeNeverIncompatible(ownerIsCluster, kind) == FALSE

\* A test that refuses a cluster-scoped dependent whatever the owner's scope.
ScopeIncompatibleAnyOwner(ownerIsCluster, kind) == DepClusterScoped(kind)

\* The test of releaseHook for a dependent kind that cannot be watched.
ScopeIncompatible(ownerIsCluster, kind) ==
    ~ownerIsCluster /\ DepClusterScoped(kind)

\* A hook that forgets to mark the kind.
MarkSeenNever(seen, kind) == seen

\* A hook that replaces the map by one holding the new kind alone.
MarkSeenReplaces(seen, kind) == {kind}

\* watches[gvk] = struct{}{}
MarkSeen(seen, kind) == seen \cup {kind}

HookInit ==
    /\ watches = {}
    /\ ownerCluster \in BOOLEAN
    /\ hpc = [h \in Hooks |-> "idle"]
    /\ hdocs = [h \in Hooks |-> <<>>]
    /\ hcur = [h \in Hooks |-> None]
    /\ hret = [h \in Hooks |-> None]
    /\ watchCalls = [k \in Kinds |-> 0]
    /\ watchOk = [k \in Kinds |-> 0]
    /\ failures = 0
    /\ mapCalls = [k \in Kinds |-> 0]

\* The state of the part that a specification leaves alone.
HookIdle == HookInit /\ ownerCluster = FALSE

FinIdle == FinInit /\ fins = <<>> /\ alias = FALSE

\* return err / return nil
HookReturn(h, result) ==
    /\ hpc' = [hpc EXCEPT ![h] = "idle"]
    /\ hdocs' = [hdocs EXCEPT ![h] = <<>>]
    /\ hcur' = [hcur EXCEPT ![h] = None]
    /\ hret' = [hret EXCEPT ![h] = result]

\* continue: on to the next document.
HookContinue(h) ==
    /\ hpc' = [hpc EXCEPT ![h] = "decode"]
    /\ hcur' = [hcur EXCEPT ![h] = None]
    /\ UNCHANGED <<hdocs, hret>>

HookGoto(h, pc) ==
    /\ hpc' = [hpc EXCEPT ![h] = pc]
    /\ UNCHANGED <<hdocs, hcur, hret>>

\* releaseHook is called with a release's manifest.
HookStart(h, manifest) ==
    /\ hpc[h] = "idle"
    /\ hpc' = [hpc EXCEPT ![h] = "decode"]
    /\ hdocs' = [hdocs EXCEPT ![h] = manifest]
    /\ hret' = [hret EXCEPT ![h] = None]
    /\ UNCHANGED <<hcur, watches, ownerCluster, watchCalls, watchOk, failures,
                   mapCalls>>
    /\ UNCHANGED <<finVars, otherVars>>

\* A Decode loop that drops a document it cannot decode and goes on.
HookDecodeSkipsBad(h) ==
    /\ hpc[h] = "decode"
    /\ IF hdocs[h] = <<>> THEN HookReturn(h, "nil")
       ELSE IF Head(hdocs[h]) = BadDoc
       THEN /\ hdocs' = [hdocs EXCEPT ![h] = Tail(hdocs[h])]
            /\ UNCHANGED <<hpc, hcur, hret>>
       ELSE /\ hpc' = [hpc EXCEPT ![h] = "check"]
            /\ hcur' = [hcur EXCEPT ![h] = Head(hdocs[h])]
            /\ hdocs' = [hdocs EXCEPT ![h] = Tail(hdocs[h])]
            /\ UNCHANGED hret
    /\ UNCHANGED <<watches, ownerCluster, watchCalls, watchOk, failures,
                   mapCalls>>
    /\ UNCHANGED <<finVars, otherVars>>

\* dec.Decode: io.EOF ends the pass with nil, any other error with the error.
HookDecode(h) ==
    /\ hpc[h] = "decode"
    /\ IF hdocs[h] = <<>> THEN HookReturn(h, "nil")
       ELSE IF Head(hdocs[h]) = BadDoc THEN HookReturn(h, "err")
       ELSE /\ hpc' = [hpc EXCEPT ![h] = "check"]
            /\ hcur' = [hcur EXCEPT ![h] = Head(hdocs[h])]
            /\ hdocs' = [hdocs EXCEPT ![h] = Tail(hdocs[h])]
            /\ UNCHANGED hret
    /\ UNCHANGED <<watches, ownerCluster, watchCalls, watchOk, failures,
                   mapCalls>>
    /\ UNCHANGED <<finVars, otherVars>>

\* The look-up of gvk in watches under the read lock.
HookCheck(h) ==
    /\ hpc[h] = "check"
    /\ IF hcur[h] \in watches THEN HookContinue(h)
       ELSE HookGoto(h, "depMapping")
    /\ UNCHANGED <<watches, ownerCluster, watchCalls, watchOk, failures,
                   mapCalls>>
    /\ UNCHANGED <<finVars, otherVars>>

\* restMapper.RESTMapping of the dependent kind.
HookDepMapping(h, fails) ==
    /\ hpc[h] = "depMapping"
    /\ mapCalls' = [mapCalls EXCEPT ![hcur[h]] = @ + 1]
    /\ IF fails
       THEN /\ failures < MaxFailures
            /\ failures' = failures + 1
            /\ HookReturn(h, "err")
       ELSE /\ HookGoto(h, "ownerMapping")
            /\ UNCHANGED failures
    /\ UNCHANGED <<watches, ownerCluster, watchCalls, watchOk>>
    /\ UNCHANGED <<finVars, otherVars>>

\* restMapper.RESTMapping of the owner kind, and the test of the two scopes.
HookOwnerMapping(h, fails) ==
    /\ hpc[h] = "ownerMapping"
    /\ IF fails
       THEN /\ failures < MaxFailures
            /\ failures' = failures + 1
            /\ HookReturn(h, "err")
       ELSE /\ HookGoto(h, IF ScopeIncompatible(ownerCluster, hcur[h])
                           THEN "skip" ELSE "watch")
            /\ UNCHANGED failures
    /\ UNCHANGED <<watches, ownerCluster, watchCalls, watchOk, mapCalls>>
    /\ UNCHANGED <<finVars, otherVars>>

\* The kind cannot be watched: it is marked seen under the write lock.
HookSkip(h) ==
    /\ hpc[h] = "skip"
    /\ watches' = MarkSeen(watches, hcur[h])
    /\ HookContinue(h)
    /\ UNCHANGED <<ownerCluster, watchCalls, watchOk, failures, mapCalls>>
    /\ UNCHANGED <<finVars, otherVars>>

\* A hook that marks the kind seen although c.Watch returned an error.
HookWatchMarksAnyway(h, fails) ==
    /\ hpc[h] = "watch"
    /\ watchCalls' = [watchCalls EXCEPT ![hcur[h]] = @ + 1]
    /\ IF fails
       THEN /\ failures < MaxFailures
            /\ failures' = failures + 1
            /\ watches' = MarkSeen(watches, hcur[h])
            /\ HookReturn(h, "err")
            /\ UNCHANGED watchOk
       ELSE /\ watchOk' = [watchOk EXCEPT ![hcur[h]] = @ + 1]
            /\ HookGoto(h, "mark")
            /\ UNCHANGED <<failures, watches>>
    /\ UNCHANGED <<ownerCluster, mapCalls>>
    /\ UNCHANGED <<finVars, otherVars>>

\* c.Watch for the kind.
HookWatch(h, fails) ==
    /\ hpc[h] = "watch"
    /\ watchCalls' = [watchCalls EXCEPT ![hcur[h]] = @ + 1]
    /\ IF fails
       THEN /\ failures < MaxFailures
            /\ failures' = failures + 1
            /\ HookReturn(h, "err")
            /\ UNCHANGED watchOk
       ELSE /\ watchOk' = [watchOk EXCEPT ![hcur[h]] = @ + 1]
            /\ HookGoto(h, "mark")
            /\ UNCHANGED failures
    /\ UNCHANGED <<watches, ownerCluster, mapCalls>>
    /\ UNCHANGED <<finVars, otherVars>>

\* The watched kind is marked seen under the write lock.
HookMark(h) ==
    /\ hpc[h] = "mark"
    /\ watches' = MarkSeen(watches, hcur[h])
    /\ HookContinue(h)
    /\ UNCHANGED <<ownerCluster, watchCalls, watchOk, failures, mapCalls>>
    /\ UNCHANGED <<finVars, otherVars>>

HookStep(h) ==
    \/ HookDecode(h)
    \/ HookCheck(h)
    \/ \E fails \in BOOLEAN : HookDepMapping(h, fails)
    \/ \E fails \in BOOLEAN : HookOwnerMapping(h, fails)
    \/ HookSkip(h)
    \/ \E fails \in BOOLEAN : HookWatch(h, fails)
    \/ HookMark(h)

\* No run of the hook is under way.
AllIdle == \A h \in Hooks : hpc[h] = "idle"

\* The hook processes one manifest after the other.
NextWatchSeq ==
    \/ \E h \in Hooks, m \in Manifests : AllIdle /\ HookStart(h, m)
    \/ \E h \in Hooks : HookStep(h)

InitWatch == FinIdle /\ HookInit /\ OtherIdle

SpecWatchSeq == InitWatch /\ [][NextWatchSeq]_vars

\* --------------------------------------------- release hooks run at once
\* The manifests of the runs that interleave: a kind that can be watched, one
\* that a namespaced owner cannot watch, a document that does not decode.
ConcManifests == {<<"Deployment">>, <<"ClusterRole">>, <<BadDoc>>}

\* The hook runs that interleave: reconciles of different resources on
\* separate workers share m and watches.
ConcHooks == Hooks \cup {"h3"}

InitWatchConc ==
    /\ FinIdle
    /\ OtherIdle
    /\ watches = {}
    /\ ownerCluster \in BOOLEAN
    /\ hpc = [h \in ConcHooks |-> "idle"]
    /\ hdocs = [h \in ConcHooks |-> <<>>]
    /\ hcur = [h \in ConcHooks |-> None]
    /\ hret = [h \in ConcHooks |-> None]
    /\ watchCalls = [k \in Kinds |-> 0]
    /\ watchOk = [k \in Kinds |-> 0]
    /\ failures = 0
    /\ mapCalls = [k \in Kinds |-> 0]

NextWatchConc ==
    \/ \E h \in ConcHooks, m \in ConcManifests : HookStart(h, m)
    \/ \E h \in ConcHooks : HookStep(h)

SpecWatchConc == InitWatchConc /\ [][NextWatchConc]_vars

\* ------------------------------------------------- the finalizer Manager
Init == FinInit /\ HookIdle /\ OtherIdle

Next ==
    \/ \E n \in Names, f \in Actions : DoRegister(n, f)
    \/ \E k \in 0..MaxLen : DoFinalize(k)
    \/ \E n \in Names, fails \in BOOLEAN : DoFinalizeOne(n, fails)
    \/ DoReconcile
    \/ \E n \in Names : DoReconcileOne(n)

Spec == Init /\ [][Next]_vars

\* ------------------------------------ finalize actions that add finalizers
NextAdding ==
    \/ \E n \in Names, f \in Actions : DoRegister(n, f)
    \/ \E failAt \in 0..MaxLen, addAt \in 1..MaxLen, new \in Names,
          realloc \in BOOLEAN : DoFinalizeAdding(failAt, addAt, new, realloc)

SpecAdding == Init /\ [][NextAdding]_vars

\* --------------------------------------------- one Manager, many callers
InitConc ==
    /\ registry \in ConcRegistries /\ fins = <<>> /\ alias \in BOOLEAN
    /\ last = NoCall /\ prior = NoCall
    /\ HookIdle /\ PredIdle /\ RelIdle /\ ToolIdle /\ ConcInit

CStep(r) == CRLock(r) \/ CRUnlock(r) \/ CAct(r)

NextConc ==
    \/ \E r \in Resources, failAt \in 0..MaxLen :
           CStart(r, "Finalize", None, failAt)
    \/ \E r \in Resources, n \in Names, failAt \in 0..1 :
           CStart(r, "FinalizeOne", n, failAt)
    \/ \E r \in Resources : CStart(r, "Reconcile", None, 0)
    \/ \E r \in Resources : CStep(r)
    \/ \E n \in Names, f \in Actions : WRequest(n, f)
    \/ WAcquire
    \/ WRelease

SpecConc == InitConc /\ [][NextConc]_vars

\* ------------------------------ finalize actions that register finalizers
NextNested ==
    \/ \E r \in Resources, failAt \in 0..MaxLen :
           CStart(r, "Finalize", None, failAt)
    \/ \E r \in Resources, n \in Names, failAt \in 0..1 :
           CStart(r, "FinalizeOne", n, failAt)
    \/ \E r \in Resources : CStep(r)
    \/ \E r \in Resources : CNest(r)
    \/ \E n \in Names, f \in Actions : WRequest(n, f)
    \/ WAcquire
    \/ WRelease

\* The Manager holds a registration for "b" when the callers begin.
InitNested ==
    /\ InitConc
    /\ ~alias
    /\ registry = [n \in Names |-> IF n = "b" THEN "A1" ELSE None]

SpecNested == InitNested /\ [][NextNested]_vars

\* ------------------------------------- notifications of dependent objects
InitPredicate == FinIdle /\ HookIdle /\ OtherIdle

NextPredicate ==
    \/ \E obj \in Objects : OnCreate(obj)
    \/ OnDelete
    \/ \E new \in Objects : OnUpdate(new)

SpecPredicate == InitPredicate /\ [][NextPredicate]_vars

\* ----------------------------------------- the life of a managed resource
InitRelease ==
    FinIdle /\ HookIdle /\ PredIdle /\ ConcIdle /\ ToolIdle /\ RelInit

NextRelease ==
    \/ \E ok \in BOOLEAN, text \in ErrTexts, writeOk \in BOOLEAN :
           DoApply(ok, text, writeOk)
    \/ DoMarkDeleted
    \/ \E outcome \in {"ok", "notfound", "error"}, text \in ErrTexts,
          writeOk \in BOOLEAN : DoDelete(outcome, text, writeOk)

SpecRelease == InitRelease /\ [][NextRelease]_vars

\* ------------------------------------------------ teardown with retries
\* The deletion reconcile is triggered again after every attempt that left
\* the finalizer, and the engine and the status write do not fail for ever.
NextTeardown ==
    \/ \E ok \in BOOLEAN, text \in ErrTexts, writeOk \in BOOLEAN :
           DoApply(ok, text, writeOk)
    \/ DoMarkDeleted
    \/ \E outcome \in {"ok", "notfound", "error"}, text \in ErrTexts,
          writeOk \in BOOLEAN : DoDeleteAgain(outcome, text, writeOk)

SpecTeardown ==
    InitRelease /\ [][NextTeardown]_vars /\ SF_vars(DoDeleteSucceeding)

\* ------------------------------------------------ the polling loops alone
PollKinds == {"DoDelete", "DoRolloutWait", "DoCSVWait"}

InitPoll == FinIdle /\ HookIdle /\ PredIdle /\ RelIdle /\ ConcIdle /\ ToolIdle

NextPoll ==
    \/ \E kind \in PollKinds, n \in 0..MaxObjs :
           (kind = "DoDelete" \/ n = 1) /\ PStart(kind, n)
    \/ PCancel
    \/ \E outcome \in {"noaccessor", "ok", "notfound", "e1", "nokey", "ctx"} :
           PDelete(outcome)
    \/ \E get \in Gets(pkind, ctxDone) : PPoll(get)
    \/ PTimeout

SpecPoll == InitPoll /\ [][NextPoll]_vars

\* DoCreate and DoDelete alone.
NextApply ==
    \/ \E kind \in {"DoCreate", "DoDelete"}, n \in 0..MaxObjs : PStart(kind, n)
    \/ PCancel
    \/ \E outcome \in {"noaccessor", "ok", "exists", "e1", "ctx"} :
           PCreate(outcome)
    \/ \E outcome \in {"noaccessor", "ok", "notfound", "e1", "nokey", "ctx"} :
           PDelete(outcome)
    \/ \E get \in Gets(pkind, ctxDone) : PPoll(get)
    \/ PTimeout

SpecApply == InitPoll /\ [][NextApply]_vars

\* -------------------------------------------------------- loadSchema alone
InitSchema ==
    FinIdle /\ HookIdle /\ PredIdle /\ RelIdle /\ ConcIdle /\ PollIdle
    /\ CrdIdle /\ ConfIdle /\ ExtIdle /\ SchemaInit

NextSchema == DoLoadSchema

SpecLoadSchema == InitSchema /\ [][NextSchema]_vars

\* ------------------------------------------------- the CRD template alone
InitCrd ==
    FinIdle /\ HookIdle /\ PredIdle /\ RelIdle /\ ConcIdle /\ PollIdle
    /\ SchemaIdle /\ ConfIdle /\ ExtIdle /\ CrdInit

NextCrd == DoSetTemplateDefaults

SpecCrd == InitCrd /\ [][NextCrd]_vars

\* ------------------------------------------- the client Configuration alone
InitConf ==
    FinIdle /\ HookIdle /\ PredIdle /\ RelIdle /\ ConcIdle /\ PollIdle
    /\ SchemaIdle /\ CrdIdle /\ ExtIdle /\ ConfInit

NextConf == DoLoad

SpecConf == InitConf /\ [][NextConf]_vars

\* The OLM installer alone.
InitOlm ==
    FinIdle /\ HookIdle /\ PredIdle /\ RelIdle /\ ConcIdle /\ PollIdle
    /\ SchemaIdle /\ CrdIdle /\ ConfIdle /\ LogIdle /\ OlmInit

NextOlm ==
    \/ DoGetInstalledVersion
    \/ \E actErr \in {"nil", "e1"} : DoUninstall(actErr)
    \/ \E actErr \in {"nil", "e1"} : DoStatus(actErr)

SpecOlm == InitOlm /\ [][NextOlm]_vars

\* The logging handler alone.
InitLog ==
    FinIdle /\ HookIdle /\ PredIdle /\ RelIdle /\ ConcIdle /\ PollIdle
    /\ SchemaIdle /\ CrdIdle /\ ConfIdle /\ OlmIdle /\ LogInit

\* The handler takes one notification.
NextLog ==
    \/ handled = <<>> /\ \E o \in LoggedObjects : OwnerCreate(o)
    \/ handled = <<>> /\ \E old, new \in LoggedObjects : OwnerUpdate(old, new)
    \/ handled = <<>> /\ \E o \in LoggedObjects : OwnerDelete(o)
    \/ handled = <<>> /\ \E o \in LoggedObjects : OwnerGeneric(o)

SpecLog == InitLog /\ [][NextLog]_vars

\* ------------------------------------------------------------- properties
InvokedNames(c) == {c.invoked[j][1] : j \in 1..Len(c.invoked)}

Times(c, n) == Cardinality({j \in 1..Len(c.invoked) : c.invoked[j][1] = n})

Unregistered(reg) == Names \ Registered(reg)

\* Of a Finalize call that aborted: the name whose action failed, the names
\* whose actions had succeeded before it, and the registered names that
\* followed the failing one on the list (not attempted).
Failed(c) == c.invoked[Len(c.invoked)][1]

Succeeded(c) == {c.invoked[j][1] : j \in 1..(Len(c.invoked) - 1)}

NotAttempted(c) ==
    LET pos == CHOOSE j \in 1..Len(c.pre) : c.pre[j] = Failed(c)
    IN {c.pre[j] : j \in (pos + 1)..Len(c.pre)} \cap Registered(c.reg)

\* C1: a Finalize call on a duplicate-free list in which every action
\* succeeds invokes the action of every registered name on the list exactly
\* once (and no other), and none of the names whose action ran is on the
\* resource's list afterwards.
C1_FinalizeRunsEachOnce ==
    (last.op = "Finalize" /\ last.err = "nil" /\ NoDup(last.pre)) =>
        /\ \A n \in Names :
               Times(last, n) =
                   IF n \in Registered(registry) \cap Range(last.pre)
                   THEN 1 ELSE 0
        /\ InvokedNames(last) \cap Range(fins) = {}

C1_Witness ==
    /\ last.op = "Finalize" /\ last.err = "nil"
    /\ Registered(registry) = Names
    /\ NoDup(last.pre) /\ Range(last.pre) = Names
    /\ Len(last.invoked) = 3 /\ fins = <<>>

\* C2: when an action returns an error, Finalize returns the error and the
\* resource's finalizer list is exactly the list it had before the call.
C2_AbortLeavesListUnchanged ==
    (last.op = "Finalize" /\ last.err = "err") => fins = last.pre

\* C3 as stated: a successful Finalize right after an aborted one removes
\* exactly the name that failed and the names not attempted in the first
\* call.
C3_SecondCallRemovesExactly ==
    (/\ last.op = "Finalize" /\ last.err = "nil"
     /\ prior.op = "Finalize" /\ prior.err = "err" /\ NoDup(prior.pre)) =>
        Range(prior.pre) \ Range(fins) = {Failed(prior)} \cup NotAttempted(prior)

\* C3 amended: a successful Finalize right after an aborted one invokes the
\* action of every registered name on the list as the first call left it and
\* removes all of them, the failing name and the names not attempted among
\* them; when GetFinalizers returns a copy the list is the one of the first
\* call, so the names whose actions had already succeeded run again and are
\* removed too.
C3_SecondCallRemovesRegistered ==
    (/\ last.op = "Finalize" /\ last.err = "nil"
     /\ prior.op = "Finalize" /\ prior.err = "err" /\ NoDup(prior.pre)) =>
        LET retried == {Failed(prior)} \cup NotAttempted(prior) IN
        /\ fins = Restrict(last.pre, Unregistered(registry))
        /\ retried \cap Range(fins) = {}
        /\ retried \subseteq InvokedNames(last)
        /\ ~alias =>
              /\ last.pre = prior.pre
              /\ Succeeded(prior) \subseteq InvokedNames(last)
              /\ Range(prior.pre) \ Range(fins) =
                     Succeeded(prior) \cup retried

C3_Witness ==
    /\ last.op = "Finalize" /\ last.err = "nil"
    /\ prior.op = "Finalize" /\ prior.err = "err" /\ NoDup(prior.pre)
    /\ ~alias
    /\ Succeeded(prior) # {} /\ NotAttempted(prior) # {}
    /\ Len(last.invoked) = 3

\* C4: Reconcile on a list that lacks registered names adds every missing
\* registered name and returns true; a Reconcile call right after one that
\* returned true returns false and leaves the list unchanged.
C4_ReconcileAddsMissing ==
    last.op = "Reconcile" =>
        /\ (Registered(last.reg) \ Range(last.pre) # {}) =>
               (last.ret /\ Registered(registry) \subseteq Range(fins))
        /\ (prior.op = "Reconcile" /\ prior.ret) =>
               (~last.ret /\ fins = last.pre)

\* C5: the resource's finalizer list never holds a name twice.
C5_NoDuplicateNames == NoDup(fins)

\* C6: FinalizeOne with a name that has no registration returns ErrNotFound,
\* invokes no action and leaves the resource's list unchanged.
C6_FinalizeOneNotFound ==
    (last.op = "FinalizeOne" /\ registry[last.name] = None) =>
        /\ last.err = "ErrNotFound"
        /\ last.invoked = <<>>
        /\ fins = last.pre

C6_Witness ==
    /\ last.op = "FinalizeOne" /\ registry[last.name] = None
    /\ last.name \in Range(fins)
    /\ Registered(registry) # {}

\* C7: FinalizeOne with a registered name invokes that name's action and no
\* other; when the action succeeds one entry of the name leaves the list
\* (the name is gone from a duplicate-free list) and every other name stays
\* in its relative order; when it fails the list is unchanged.
C7_FinalizeOneRemovesJustThat ==
    (last.op = "FinalizeOne" /\ registry[last.name] # None) =>
        /\ last.invoked = <<<<last.name, registry[last.name]>>>>
        /\ last.err \in {"nil", "err"}
        /\ last.err = "err" => fins = last.pre
        /\ last.err = "nil" =>
              /\ Restrict(fins, Names \ {last.name}) =
                     Restrict(last.pre, Names \ {last.name})
              /\ Count(fins, last.name) =
                     IF last.name \in Range(last.pre)
                     THEN Count(last.pre, last.name) - 1 ELSE 0
              /\ \A j \in 1..Len(fins) :
                     fins[j] = last.name => \E k \in 1..j : last.pre[k] = last.name
              /\ NoDup(last.pre) => last.name \notin Range(fins)

C7_Witness ==
    /\ last.op = "FinalizeOne" /\ last.err = "nil"
    /\ Len(last.pre) = 3 /\ NoDup(last.pre)
    /\ last.pre[2] = last.name
    /\ fins = <<last.pre[1], last.pre[3]>>
    /\ Registered(registry) = Names

\* C8: ReconcileOne appends the name and returns true when the name is not
\* on the list, returns false and leaves the list unchanged when it is; a
\* second call right after one that returned true returns false, and the
\* name is on the list exactly once.
C8_ReconcileOneEnsures ==
    last.op = "ReconcileOne" =>
        /\ last.name \notin Range(last.pre) =>
               (last.ret /\ fins = Append(last.pre, last.name))
        /\ last.name \in Range(last.pre) => (~last.ret /\ fins = last.pre)
        /\ (prior.op = "ReconcileOne" /\ prior.ret) =>
               (~last.ret /\ Count(fins, last.name) = 1)

C8_Witness ==
    /\ last.op = "ReconcileOne" /\ ~last.ret
    /\ prior.op = "ReconcileOne" /\ prior.ret /\ prior.name = last.name
    /\ Count(fins, last.name) = 1 /\ Len(fins) = 3

\* C9: RegisterFinalizer returns no error and stores the action under the
\* name, replacing the one stored before and leaving the other names as
\* they were; no other call changes the registry; Finalize and FinalizeOne
\* invoke for a name the action registered last, never a replaced one.
C9_LastRegistrationWins ==
    /\ last.op = "Register" =>
           /\ last.err = "nil"
           /\ registry[last.name] = last.action
           /\ \A n \in Names \ {last.name} : registry[n] = last.reg[n]
    /\ last.op # "Register" => registry = last.reg
    /\ \A j \in 1..Len(last.invoked) :
           /\ last.invoked[j][2] = registry[last.invoked[j][1]]
           /\ (prior.op = "Register" /\ prior.name = last.invoked[j][1]) =>
                  last.invoked[j][2] = prior.action

C9_Witness ==
    /\ last.op \in {"Finalize", "FinalizeOne"}
    /\ prior.op = "Register"
    /\ prior.reg[prior.name] \notin {None, prior.action}
    /\ \E j \in 1..Len(last.invoked) :
           last.invoked[j] = <<prior.name, prior.action>>
    /\ \E n \in Names \ {prior.name} : registry[n] # None

\* A kind that the hook can watch under the owner's scope.
Watchable(k) == ~ScopeIncompatible(ownerCluster, k)

\* C10 as stated: manifests processed one after the other, c.Watch is
\* called exactly once for every watchable kind met.
C10_WatchCalledOnce ==
    \A k \in Kinds :
        /\ watchCalls[k] <= 1
        /\ (k \in watches /\ Watchable(k)) => watchCalls[k] = 1

\* C10 amended: manifests processed one after the other, c.Watch returns
\* successfully exactly once for every watchable kind marked seen and at
\* most once for any kind, it is never called for a kind that is seen, and
\* every further call for a kind is one that returned an error (which left
\* the kind unseen, to be tried again by a later pass).
C10_WatchSucceedsOnce ==
    \A k \in Kinds :
        /\ watchOk[k] <= 1
        /\ (k \in watches /\ Watchable(k)) => watchOk[k] = 1
        /\ (k \in watches /\ ~Watchable(k)) => watchCalls[k] = 0
        /\ \A h \in Hooks :
               (hpc[h] \in {"depMapping", "ownerMapping", "watch"}
                /\ hcur[h] = k) => k \notin watches
        /\ watchCalls[k] <= watchOk[k] + failures
        /\ failures = 0 => watchCalls[k] = watchOk[k]

\* A second pass meets a kind that an earlier, completed pass has had
\* watched, and the kinds of that pass were each watched once.
C10_Witness ==
    /\ hret["h1"] = "nil"
    /\ hpc["h2"] = "check" /\ hcur["h2"] \in watches
    /\ hdocs["h2"] # <<>> /\ Head(hdocs["h2"]) = hcur["h2"]
    /\ {"Deployment", "Service"} \subseteq watches
    /\ watchCalls["Deployment"] = 1 /\ watchCalls["Service"] = 1

\* The runs that have read kind k as not seen and have not yet had c.Watch
\* return for it.
InFlight(hs, k) ==
    {h \in hs : hcur[h] = k /\ hpc[h] \in {"depMapping", "ownerMapping", "watch"}}

C11_State ==
    \A k \in Kinds :
        (~ownerCluster /\ DepClusterScoped(k)) =>
            /\ watchCalls[k] = 0
            /\ \A h \in Hooks :
                   hcur[h] = k =>
                       /\ hpc[h] \notin {"watch", "mark"}
                       /\ k \in watches =>
                              hpc[h] \notin {"depMapping", "ownerMapping", "skip"}
            /\ failures = 0 => mapCalls[k] <= 1

C11_Step ==
    /\ \A h \in Hooks :
           hpc[h] = "skip" =>
               /\ hpc'[h] = "decode"
               /\ hcur[h] \in watches'
               /\ hret' = hret
    /\ \A k \in watches : mapCalls'[k] = mapCalls[k]

\* C11: with a namespace-scoped owner, c.Watch is never called for a
\* cluster-scoped dependent kind; the hook goes on to the next document
\* without an error and with the kind marked seen; once the kind is seen no
\* later pass looks its RESTMapping up again.
C11_IncompatibleKindSkipped == []C11_State /\ [][C11_Step]_vars

C11_Witness ==
    /\ ~ownerCluster
    /\ "ClusterRole" \in watches
    /\ hret["h1"] = "nil"
    /\ hpc["h2"] = "check" /\ hcur["h2"] = "ClusterRole"
    /\ mapCalls["ClusterRole"] = 1 /\ watchCalls["ClusterRole"] = 0

\* C12: whatever the interleaving of hook runs, failing ones included, a
\* kind that is in the seen set stays in it.
C12_SeenOnlyGrows == [][watches \subseteq watches']_vars

C12_Witness ==
    /\ Cardinality(watches) = 2
    /\ \E h \in ConcHooks : hret[h] = "err"
    /\ \E h1, h2 \in ConcHooks :
           /\ h1 # h2
           /\ hpc[h1] = "mark" /\ hcur[h1] \in watches
           /\ hpc[h2] = "watch" /\ hcur[h2] \in watches

\* C13 as stated: however many hooks run at once, c.Watch is called at most
\* twice for a kind (calls that returned an error set aside).
C13_AtMostTwoCalls ==
    \A k \in Kinds : watchOk[k] <= 2 /\ (failures = 0 => watchCalls[k] <= 2)

\* C13 amended: a run calls c.Watch for a kind only after it has read the
\* kind as not seen, and marks the kind seen right after its call returned
\* nil; so every hook has at most one successful call per kind, n hooks
\* running at once make at most n of them (n - 1 redundant, one when two
\* hooks race), and every further call is one that returned an error.
C13_OneCallPerHook ==
    \A k \in Kinds :
        /\ watchOk[k] + Cardinality(InFlight(ConcHooks, k))
               <= Cardinality(ConcHooks)
        /\ watchCalls[k] <= watchOk[k] + failures
        /\ (watchOk[k] >= 1 /\ k \notin watches) =>
               \E h \in ConcHooks : hpc[h] = "mark" /\ hcur[h] = k

C13_Witness ==
    /\ watchOk["Deployment"] = 3 /\ watchCalls["Deployment"] = 3
    /\ failures = 0
    /\ "Deployment" \in watches

C14_Step ==
    /\ watches \subseteq watches'
    /\ \A h \in Hooks :
           (hpc[h] = "decode" /\ hdocs[h] # <<>> /\ Head(hdocs[h]) = BadDoc) =>
               /\ hpc'[h] = "idle" /\ hret'[h] = "err" /\ hdocs'[h] = <<>>
               /\ UNCHANGED <<watches, watchCalls, watchOk, mapCalls>>

C14_State ==
    \A h \in Hooks :
        /\ hpc[h] = "idle" => hdocs[h] = <<>>
        /\ hpc[h] \in {"depMapping", "ownerMapping", "watch"} =>
               hcur[h] \notin watches
        /\ \A k \in watches : Watchable(k) => watchOk[k] = 1

\* C14: a document that does not decode ends the pass with the error and
\* nothing after it is processed; the kinds marked before stay seen and
\* subscribed; a later pass calls RESTMapping and c.Watch only for kinds
\* that are not seen.
C14_DecodeFailureAborts == []C14_State /\ [][C14_Step]_vars

C14_Witness ==
    /\ hret["h1"] = "err" /\ failures = 0
    /\ watches = {"Deployment"} /\ watchCalls["Deployment"] = 1
    /\ hpc["h2"] = "check" /\ hcur["h2"] = "Deployment"
    /\ hdocs["h2"] = <<"Service">>

\* The value of field k of the map f, Absent when f has no such field.
Field(f, k) == IF k \in DOMAIN f THEN f[k] ELSE Absent

\* old and new agree on every field other than the top-level status and
\* metadata.resourceVersion.
SameButStatusAndVersion(old, new) ==
    /\ \A k \in (DOMAIN old \cup DOMAIN new) \ {"status", "metadata"} :
           Field(old, k) = Field(new, k)
    /\ \A k \in (DOMAIN old["metadata"] \cup DOMAIN new["metadata"])
                    \ {"resourceVersion"} :
           Field(old["metadata"], k) = Field(new["metadata"], k)

\* C15: UpdateFunc returns false exactly when the old and the new object
\* agree on every field other than the top-level status and the
\* resourceVersion, and true when any other field differs.
C15_UpdateFilteredIffOnlyStatus ==
    evKind = "update" =>
        (passed["update"] = FALSE <=> SameButStatusAndVersion(evOld, evNew))

C15_Witness ==
    /\ evKind = "update"
    /\ passed["update"] = FALSE
    /\ Field(evOld, "status") = "t1" /\ Field(evNew, "status") = "t2"
    /\ Field(evOld["metadata"], "resourceVersion") = "1"
    /\ Field(evNew["metadata"], "resourceVersion") = "2"
    /\ Field(evOld, "spec") = "s1"

\* C16: CreateFunc returns false and DeleteFunc returns true for every
\* object.
C16_CreateFilteredDeletePasses ==
    /\ "create" \in DOMAIN passed => passed["create"] = FALSE
    /\ "delete" \in DOMAIN passed => passed["delete"] = TRUE
    /\ evKind = "create" => "create" \in DOMAIN passed
    /\ evKind = "delete" => "delete" \in DOMAIN passed

C16_Witness ==
    /\ evKind = "delete"
    /\ {"create", "delete"} \subseteq DOMAIN passed
    /\ passed["create"] = FALSE
    /\ passed["delete"] = TRUE
    /\ Field(evNew, "status") = "t1" /\ Field(evNew, "spec") = "s2"

\* The step is a reconcile of op kind.
Reconciled(op) == attempts' = attempts + 1 /\ rLast'.op = op

UninstalledCondition == Condition("False", "UninstallSuccessful", "")

HasCondition(status, type, c) == type \in DOMAIN status /\ status[type] = c

C17_Install ==
    (Reconciled("install") /\ rLast'.outcome = "ok" /\ rLast'.write) =>
        /\ ~rDeletion /\ release = "absent"
        /\ "Deployed" \in DOMAIN rStored'
        /\ rStored'["Deployed"].status = "True"
        /\ release' = "deployed"

C17_Delete ==
    (Reconciled("delete") /\ UninstallName \in Range(rFins)) =>
        /\ rDeletion
        /\ rLast'.invoked
        /\ uninstallCalls' = uninstallCalls + 1
        /\ (release = "deployed" /\ rLast'.outcome = "ok" /\ rLast'.write) =>
               /\ UninstallName \notin Range(rFins')
               /\ rFins' = Restrict(rFins, {ForeignName})
               /\ HasCondition(rStored', "Deployed", UninstalledCondition)
               /\ rLast'.err = "nil"

C18_NotFoundIsSuccess ==
    (rLast.op = "delete" /\ rLast.outcome = "notfound") =>
        /\ "ReleaseFailed" \notin DOMAIN rLast.status
        /\ rLast.write =>
               /\ rLast.err = "nil"
               /\ UninstallName \notin Range(rFins)
               /\ "ReleaseFailed" \notin DOMAIN rStored

C18_Witness ==
    /\ rLast.op = "delete" /\ rLast.outcome = "notfound" /\ rLast.write
    /\ "ReleaseFailed" \in DOMAIN rLast.before
    /\ uninstallCalls = 3
    /\ UninstallName \in Range(rLast.pre)
    /\ UninstallName \notin Range(rFins)

C19_State ==
    (rLast.op = "delete" /\ rLast.outcome = "error") =>
        /\ rLast.text \in ErrTexts
        /\ HasCondition(rLast.status, "ReleaseFailed",
                        Condition("True", "UninstallError", rLast.text))
        /\ rLast.err = rLast.text
        /\ rFins = rLast.pre
        /\ UninstallName \in Range(rFins)
        /\ rLast.write => rStored = rLast.status
        /\ ~rLast.write => rStored = rLast.before

C19_Retry ==
    (rLast.op = "delete" /\ rLast.outcome = "error" /\ Reconciled("delete")) =>
        uninstallCalls' = uninstallCalls + 1

\* C19: when UninstallRelease fails with an error other than ErrNotFound the
\* finalizer leaves ReleaseFailed=True with reason UninstallError and the
\* error text in the status, returns that error whether or not the status
\* write succeeds, the name stays on the resource, and the next reconcile
\* calls UninstallRelease again.
C19_UninstallErrorKeepsFinalizer == []C19_State /\ [][C19_Retry]_vars

C19_Witness ==
    /\ rLast.op = "delete" /\ rLast.outcome = "error" /\ ~rLast.write
    /\ rLast.err = "e2"
    /\ uninstallCalls = 2
    /\ UninstallName \in Range(rFins)

\* C20: after a reconcile in which UninstallRelease returned a release, the
\* status has Deployed=False with reason UninstallSuccessful, and the name
\* is off the list only if the write of that status succeeded.
C20_ConditionBeforeRemoval ==
    (rLast.op = "delete" /\ rLast.outcome = "ok") =>
        /\ HasCondition(rLast.status, "Deployed", UninstalledCondition)
        /\ UninstallName \in Range(rLast.pre)
        /\ UninstallName \notin Range(rFins) =>
               /\ rLast.write
               /\ rLast.err = "nil"
               /\ HasCondition(rStored, "Deployed", UninstalledCondition)
        /\ ~rLast.write => (rFins = rLast.pre /\ rLast.err = WriteFailed)

C20_Witness ==
    /\ rLast.op = "delete" /\ rLast.outcome = "ok" /\ rLast.write
    /\ rLast.pre = <<ForeignName, UninstallName>>
    /\ rFins = <<ForeignName>>
    /\ HasCondition(rStored, "Deployed", UninstalledCondition)
    /\ HasCondition(rLast.before, "ReleaseFailed",
                    Condition("True", "UninstallError", "e1"))

\* The names of the actions a call invoked, in the order of invocation.
InvokedSeq(c) == [j \in 1..Len(c.invoked) |-> c.invoked[j][1]]

IsPrefix(s, t) == Len(s) <= Len(t) /\ s = SubSeq(t, 1, Len(s))

\* C21: a Finalize call that completes its pass calls SetFinalizers exactly
\* once, with the list left after all actions have run; a call that aborts
\* on an action error does not call it.
C21_WritesBackOnce ==
    last.op = "Finalize" =>
        /\ last.err = "nil" =>
               /\ last.sets = 1
               /\ Range(fins) \cap InvokedNames(last) = {}
        /\ last.err # "nil" => last.sets = 0

C21_Witness ==
    /\ last.op = "Finalize" /\ last.err = "nil" /\ last.sets = 1
    /\ Len(last.invoked) = 2 /\ Len(fins) = 1
    /\ prior.op = "Finalize" /\ prior.err = "err" /\ prior.sets = 0
    /\ Len(prior.invoked) = 2

\* C29: after a successful Finalize the resource's list is the list it had
\* before, restricted to the names without a registered action, in the
\* same order; no action is invoked for a name without registration.
C29_KeepsUnregisteredInOrder ==
    (last.op = "Finalize" /\ last.err = "nil") =>
        /\ fins = Restrict(last.pre, Unregistered(last.reg))
        /\ InvokedNames(last) \cap Unregistered(last.reg) = {}
        /\ \A j \in 1..Len(last.invoked) :
               last.invoked[j][2] = last.reg[last.invoked[j][1]]

C29_Witness ==
    /\ last.op = "Finalize" /\ last.err = "nil"
    /\ Len(last.pre) = 3 /\ NoDup(last.pre)
    /\ Registered(last.reg) = {last.pre[2]}
    /\ fins = <<last.pre[1], last.pre[3]>>
    /\ last.pre[1] = "c" /\ last.pre[3] = "a"

\* C30: Finalize invokes the actions in the order of the names on the list:
\* the names invoked are, in order, the registered names of the list, all
\* of them in a call that succeeds and those up to the failing one in a
\* call that aborts.
C30_InvokesInListOrder ==
    last.op = "Finalize" =>
        LET due == Restrict(last.pre, Registered(last.reg)) IN
        /\ IsPrefix(InvokedSeq(last), due)
        /\ last.err = "nil" => InvokedSeq(last) = due
        /\ last.err # "nil" => last.invoked # <<>>

C30_Witness ==
    /\ last.op = "Finalize" /\ last.err = "err"
    /\ last.pre = <<"b", "c", "a">>
    /\ Registered(last.reg) = Names
    /\ InvokedSeq(last) = <<"b", "c">>

\* C28: when an action has added a finalizer name to the resource during a
\* Finalize call that returns nil, the name is on the resource's list after
\* the call.
C28_AddedNameKept ==
    (last.op = "Finalize" /\ last.err = "nil" /\ last.ret) =>
        last.name \in Range(fins)

\* What the call op returns, and the list it leaves, when it runs alone on a
\* resource with list pre and a Manager with registrations reg.
Sequential(op, pre, reg) ==
    IF op.op = "Finalize"
    THEN LET a == Finalize(pre, op.failAt, reg, alias)
         IN  [fins |-> a.fins, out |-> Out(a.err, FALSE, a.invoked, a.sets)]
    ELSE IF op.op = "FinalizeOne"
    THEN LET a == FinalizeOne(pre, op.name, op.failAt = 1, reg)
         IN  [fins |-> a.fins, out |-> Out(a.err, FALSE, a.invoked, a.sets)]
    ELSE LET a == Reconcile(pre, reg)
         IN  [fins |-> a.fins, out |-> Out("nil", a.added, <<>>, a.sets)]

\* Some caller is inside a call.
Active == wpc # "idle" \/ \E r \in Resources : cpc[r] # "idle"

C22_Progress ==
    Active => ENABLED (WAcquire \/ WRelease \/ \E r \in Resources : CStep(r))

C22_Step ==
    \A r \in Resources :
        (cpc[r] # "idle" /\ cpc'[r] = "idle") =>
            LET a == Sequential(cop[r], cpre[r], registry) IN
            /\ clist'[r] = a.fins
            /\ cout'[r] = a.out

\* C22: calls of Finalize, FinalizeOne and Reconcile on different resources
\* that interleave with each other and with RegisterFinalizer calls for
\* other names never all wait for the mutex, and each call leaves its
\* resource with the list, and returns with the invoked actions and the
\* result, of the same call run alone at the moment it returns.
C22_ConcurrentCallsSequential == []C22_Progress /\ [][C22_Step]_vars

C22_Witness ==
    /\ cpc["r1"] = "act" /\ cop["r1"].op = "Finalize" /\ Len(cinv["r1"]) = 1
    /\ cpc["r2"] = "runlock" /\ cop["r2"].op = "FinalizeOne"
    /\ wpc = "wait" /\ warg[1] = "c"
    /\ readers = 1

\* C23: a resource with deletion timestamp that carries
\* "uninstall-helm-release" eventually has the name off its list, when the
\* deletion reconcile keeps being triggered and UninstallRelease and the
\* status write do not fail for ever.
C23_TeardownCompletes ==
    (rDeletion /\ UninstallName \in Range(rFins))
        ~> (UninstallName \notin Range(rFins))

C23_Witness ==
    /\ rDeletion
    /\ rLast.op = "delete" /\ rLast.outcome = "notfound" /\ rLast.write
    /\ UninstallName \in Range(rLast.pre)
    /\ UninstallName \notin Range(rFins)
    /\ HasCondition(rLast.before, "ReleaseFailed",
                    Condition("True", "UninstallError", "e2"))
    /\ HasCondition(rStored, "Deployed",
                    Condition("True", "InstallSuccessful", ""))

\* C24: the polling loops of DoDelete, DoRolloutWait and DoCSVWait can be
\* cancelled and end with the caller's deadline. Once ctx is done, the next
\* thing the call does makes it return an error, so it never polls on; a poll
\* whose Get fails with an error that the loop does not tolerate (not-found
\* is tolerated by DoDelete, where it ends the wait, and by DoCSVWait, where
\* the wait goes on) makes the call return that error at that poll; and a
\* call that has not returned can always take a step or be cancelled.
Polling == ppc \in {"first", "select"}

Tolerated(kind, err) ==
    err = "nil" \/ (kind \in {"DoDelete", "DoCSVWait"} /\ err = "notfound")

C24_Cancelled ==
    (ctxDone /\ ppc \in {"delete", "first", "select"}
        /\ <<ppc, polls>> # <<ppc', polls'>>)
        => (ppc' = "returned" /\ pret' \notin {"nil", "none"})

C24_GetError ==
    (Polling /\ polls' = polls + 1 /\ ~Tolerated(pkind, plast'.err))
        => (ppc' = "returned" /\ pret' = plast'.err)

C24_Live ==
    ppc \in {"delete", "first", "select"} =>
        ENABLED (PCancel \/ PTimeout
                 \/ (\E get \in Gets(pkind, ctxDone) : PPoll(get))
                 \/ (\E o \in {"ok", "ctx"} : PDelete(o)))

C24_PollingCancellable ==
    []C24_Live /\ [][C24_Cancelled /\ C24_GetError]_vars

\* A DoCSVWait that polled until the deadline passed and then gave up.
C24_Witness ==
    /\ pkind = "DoCSVWait" /\ ppc = "returned" /\ pret = "timeout"
    /\ ctxDone /\ polls = MaxPolls /\ curPhase = "Pending"

\* C25 as stated: loadSchema returns a nil schema and no error exactly when
\* neither the chart nor any dependency, recursively, has a schema, and
\* returns a schema otherwise (read for charts whose schemas all parse).
HasSchema(c, j) == c.schema[j].json # "none"

C25_NilIffNoSchema ==
    loaded # NotLoaded =>
        /\ (loaded.isNil /\ loaded.err = NoErr)
               <=> (\A j \in 1..chrt.n : ~HasSchema(chrt, j))
        /\ (loaded.err = NoErr /\ \E j \in 1..chrt.n : HasSchema(chrt, j))
               => ~loaded.isNil

RECURSIVE IsUnder(_, _, _)
\* Chart j is chart i or one of its dependencies, recursively.
IsUnder(c, j, i) == j = i \/ (j > 1 /\ IsUnder(c, c.parent[j], i))

\* The schema of chart j says something besides "$schema".
SaysSomething(c, j) ==
    c.schema[j].json = "ok" /\ (c.schema[j].type # "" \/ c.schema[j].props # <<>>)

Contributes(c, i) == \E j \in 1..c.n : IsUnder(c, j, i) /\ SaysSomething(c, j)

RECURSIVE Expected(_, _)
Expected(c, i) ==
    LET own == IF c.schema[i].json = "ok"
               THEN [Unmarshal(c.schema[i]) EXCEPT !.Schema = ""]
               ELSE EmptyProps
        kids == {j \in 1..c.n : c.parent[j] = i /\ Contributes(c, j)}
        ownKeys == IF own.Properties = <<>> THEN {}
                   ELSE DOMAIN own.Properties[1]
        kidKeys == {ChartNames[j] : j \in kids}
    IN IF kids = {} THEN own
       ELSE Props("",
                  IF own.Properties = <<>> THEN "object" ELSE own.Type,
                  <<[k \in ownKeys \cup kidKeys |->
                        IF k \in kidKeys
                        THEN Expected(c, CHOOSE j \in kids : ChartNames[j] = k)
                        ELSE own.Properties[1][k]]>>)

\* C25, amended: when the schema of the chart or of a dependency,
\* recursively, does not parse, loadSchema returns a nil schema and the parse
\* error of such a chart. Otherwise it returns no error, and a nil schema
\* exactly when no schema of the chart or of a dependency, recursively, says
\* anything besides its "$schema" (a chart without schema says nothing);
\* otherwise the chart's own schema with "$schema" cleared, extended with one
\* property per dependency whose loaded schema is not nil, keyed by the
\* dependency's name (replacing an own property of that name) and holding
\* that schema, with type "object" set when the chart had no properties map.
C25_NilIffNothingSaid ==
    loaded # NotLoaded =>
        IF \E j \in 1..chrt.n : chrt.schema[j].json = "bad"
        THEN /\ loaded.isNil /\ loaded.err.kind = "parse"
             /\ \E j \in 1..chrt.n : /\ chrt.schema[j].json = "bad"
                                     /\ loaded.err.chart = ChartNames[j]
        ELSE /\ loaded.err = NoErr
             /\ loaded.isNil <=> ~Contributes(chrt, 1)
             /\ ~loaded.isNil => loaded.schema = Expected(chrt, 1)

\* A chart whose schema holds only "$schema", with a dependency of a
\* dependency that has properties: three levels of schema come back.
C25_Witness ==
    /\ loaded # NotLoaded /\ loaded.err = NoErr /\ ~loaded.isNil
    /\ chrt.n = 3 /\ chrt.parent = <<0, 1, 2>>
    /\ chrt.schema[1] = Doc("ok", "draft-07", "", <<>>)
    /\ chrt.schema[2] = NoDoc
    /\ chrt.schema[3] = Doc("ok", "draft-07", "object", <<{"f"}>>)
    /\ loaded.schema.Type = "object"
    /\ DOMAIN loaded.schema.Properties[1] = {"c2"}
    /\ DOMAIN loaded.schema.Properties[1]["c2"].Properties[1] = {"c3"}

\* C26: SetTemplateDefaults selects the v1 template for CRDVersion "" and
\* "v1", the v1beta1 template for "v1beta1", and returns an error for every
\* other value. A nil SpecSchema becomes the default schema: the description
\* of the kind, type object, preserve-unknown-fields. A given SpecSchema gets
\* the description only where its own is empty, and is otherwise unchanged.
C26_TemplateDefaults ==
    crdErr # "none" =>
        /\ crdIn.CRDVersion \in {"", "v1"}
               => crdErr = "nil" /\ crd.TemplateBody = "crdTemplateV1"
        /\ crdIn.CRDVersion = "v1beta1"
               => crdErr = "nil" /\ crd.TemplateBody = "crdTemplateV1Beta1"
        /\ crdIn.CRDVersion \notin {"", "v1", "v1beta1"} => crdErr # "nil"
        /\ crdIn.SpecSchema = <<>>
               => crd.SpecSchema =
                      <<[Description |->
                             "Spec defines the desired state of " \o crd.Kind,
                         Type |-> "object",
                         XPreserveUnknownFields |-> <<TRUE>>,
                         Properties |-> <<>>]>>
        /\ crdIn.SpecSchema # <<>>
               => /\ crd.SpecSchema # <<>>
                  /\ \A field \in {"Type", "XPreserveUnknownFields",
                                   "Properties"} :
                         crd.SpecSchema[1][field] = crdIn.SpecSchema[1][field]
                  /\ crd.SpecSchema[1].Description =
                         IF crdIn.SpecSchema[1].Description = ""
                         THEN "Spec defines the desired state of " \o crd.Kind
                         ELSE crdIn.SpecSchema[1].Description

\* A v1beta1 CRD of kind Bar whose given schema kept its own description.
C26_Witness ==
    /\ crdErr = "nil" /\ crdIn.CRDVersion = "v1beta1" /\ crdIn.Kind = "Bar"
    /\ crdIn.SpecSchema # <<>>
    /\ crd.SpecSchema[1].Description = "Custom description"
    /\ crd.SpecSchema[1].Properties = <<{"test"}>>
    /\ crd.TemplateBody = "crdTemplateV1Beta1"

\* C27: a Load that succeeds keeps a Namespace the caller gave and takes
\* the namespace of the client configuration (that of the kubeconfig's
\* current context when no flag overrides it and the context names one) only
\* when Namespace was empty; an explicit KubeconfigPath that exists decides
\* the server whatever $KUBECONFIG and the recommended file hold; an explicit
\* path that does not exist makes Load return the not-exist error and leaves
\* Client and RESTConfig unset.
Flag(c) == IF c.overrides = <<>> THEN "" ELSE c.overrides[1]

C27_LoadNamespaceAndPath ==
    confErr # "none" =>
        LET in == confIn.cfg
        IN /\ (confErr = "nil" /\ in.Namespace # "")
                  => conf.Namespace = in.Namespace
           /\ (confErr = "nil" /\ in.Namespace = "" /\ in.KubeconfigPath # "")
                  => conf.Namespace =
                         IF Flag(in) # "" THEN Flag(in)
                         ELSE Kubeconfigs[in.KubeconfigPath].Namespace
           /\ (confErr = "nil" /\ in.Namespace = "" /\ in.KubeconfigPath = ""
                   /\ confIn.KUBECONFIG = "" /\ Flag(in) = "")
                  => conf.Namespace = Kubeconfigs[RecommendedHomeFile].Namespace
           /\ (confErr = "nil" /\ in.KubeconfigPath # "")
                  => conf.RESTConfig =
                         <<[Host |-> Kubeconfigs[in.KubeconfigPath].Host]>>
           /\ (in.KubeconfigPath # "" /\ in.KubeconfigPath \notin DOMAIN Kubeconfigs)
                  => /\ confErr = "notexist"
                     /\ ~conf.Client /\ conf.RESTConfig = <<>>
           /\ confErr # "nil"
                  => /\ ~conf.Client /\ conf.RESTConfig = <<>>
                     /\ conf.Namespace = in.Namespace

\* The override file given explicitly while $KUBECONFIG names another file
\* and the caller gave a namespace.
C27_Witness ==
    /\ confErr = "nil"
    /\ confIn.cfg.KubeconfigPath = "/tmp/override"
    /\ confIn.KUBECONFIG = "/tmp/bare" /\ confIn.home
    /\ confIn.cfg.Namespace = "userspecified"
    /\ conf.Namespace = "userspecified"
    /\ conf.RESTConfig = <<[Host |-> "https://override:6443"]>>
    /\ conf.Client

C31_Step ==
    /\ \A h \in Hooks :
           LET k == hcur[h]
           IN /\ (hpc[h] = "ownerMapping"
                     /\ hpc'[h] \notin {"ownerMapping", "idle"})
                    => /\ k \notin watches
                       /\ hpc'[h] = IF ~ownerCluster /\ k = "ClusterRole"
                                    THEN "skip" ELSE "watch"
                       /\ watchCalls' = watchCalls
              /\ (hpc[h] = "watch" /\ hpc'[h] # "watch")
                    => /\ watchCalls' = [watchCalls EXCEPT ![k] = @ + 1]
                       /\ watches' = watches
                       /\ \/ hpc'[h] = "mark" /\ hcur'[h] = k
                          \/ hpc'[h] = "idle" /\ hret'[h] = "err"
              /\ (hpc[h] = "mark" /\ hpc'[h] # "mark")
                    => /\ watches' = watches \cup {k}
                       /\ hpc'[h] = "decode"
                       /\ watchCalls' = watchCalls
    /\ watchCalls' # watchCalls => \E h \in Hooks : hpc[h] = "watch"

C31_State ==
    /\ \A h \in Hooks :
           hpc[h] \in {"watch", "mark"} =>
               /\ hcur[h] \notin watches
               /\ ownerCluster \/ hcur[h] # "ClusterRole"
    /\ \A k \in Kinds :
           (failures = 0 /\ k \in watches) =>
               watchCalls[k] = IF ~ownerCluster /\ k = "ClusterRole"
                               THEN 0 ELSE 1

\* C31: a hook that has resolved the scopes of a kind it read as not seen
\* goes on to c.Watch exactly when it is not the case that the owner is
\* namespace-scoped and the dependent cluster-scoped; in each of the other
\* three combinations it makes exactly one c.Watch call for the kind, and,
\* the call having returned nil, marks the kind seen next (the failing
\* look-ups and calls are the matter of C32).
C31_WatchedIffCompatible == []C31_State /\ [][C31_Step]_vars

\* A cluster-scoped owner: the cluster-scoped and a namespaced kind were
\* each subscribed once and marked.
C31_Witness ==
    /\ ownerCluster /\ failures = 0
    /\ watches = {"ClusterRole", "Deployment"}
    /\ watchCalls["ClusterRole"] = 1 /\ watchCalls["Deployment"] = 1
    /\ watchOk["ClusterRole"] = 1
    /\ \A h \in Hooks : hpc[h] = "idle"

C32_State ==
    \A k \in watches :
        watchOk[k] >= 1 \/ (~ownerCluster /\ DepClusterScoped(k))

C32_Step ==
    \A h \in ConcHooks :
        /\ (hpc[h] \in {"depMapping", "ownerMapping", "watch"}
               /\ failures' = failures + 1 /\ hpc'[h] # hpc[h])
              => /\ hpc'[h] = "idle" /\ hret'[h] = "err"
                 /\ watches' = watches
                 /\ watchOk' = watchOk
        /\ (hpc[h] = "check" /\ hpc'[h] # "check" /\ hcur[h] \notin watches)
              => hpc'[h] = "depMapping" /\ hcur'[h] = hcur[h]

\* C32: however the hook runs interleave, a kind is in the seen set only if
\* a c.Watch call for it has returned nil or the kind cannot be watched
\* under the owner's scope; a run whose RESTMapping look-up or c.Watch call
\* fails returns the error and marks nothing; and a run that meets a kind
\* not in the seen set looks its mapping up, so a kind left unseen by a
\* failure is attempted again.
C32_SeenOnlyIfWatched == []C32_State /\ [][C32_Step]_vars

\* A c.Watch call for Deployment failed; a later one returned nil and the
\* kind was marked.
C32_Witness ==
    /\ failures = 1 /\ mapCalls["Deployment"] = 2
    /\ watchCalls["Deployment"] = 2 /\ watchOk["Deployment"] = 1
    /\ "Deployment" \in watches
    /\ \E h \in ConcHooks : hret[h] = "err"

\* The callers that hold the read lock, and those inside a finalize action.
ReadHolders == {r \in Resources : cpc[r] = "runlock"}

InAction == {r \in Resources : cpc[r] \in {"act", "nwait", "nheld", "acted"}}

C33_State ==
    /\ readers = Cardinality(ReadHolders)
    /\ InAction \cap ReadHolders = {}
    /\ Cardinality({r \in Resources : cpc[r] = "nheld"})
           + (IF wpc = "held" THEN 1 ELSE 0) <= 1
    /\ (wpc = "held" \/ \E r \in Resources : cpc[r] = "nheld") => readers = 0
    /\ Active =>
           ENABLED (WAcquire \/ WRelease
                    \/ \E r \in Resources : CStep(r) \/ CNest(r))
    /\ \A r \in Resources :
           (cpc[r] = "nwait" /\ ReadHolders = {} /\ wpc # "held"
                /\ \A q \in Resources : cpc[q] # "nheld")
               => ENABLED CNestAcquire(r)

C33_Step ==
    \A r \in Resources :
        /\ (cpc[r] = "runlock" /\ cpc'[r] = "act") => readers' = readers - 1
        /\ (cpc[r] = "nwait" /\ cpc'[r] = "nheld")
              => registry'[NestedName] = NestedAction
        /\ (cpc[r] = "nheld" /\ cpc'[r] # "nheld") => cpc'[r] = "acted"

\* C33: no caller holds the Manager's lock while its finalize action runs:
\* Finalize and FinalizeOne give the read lock back before they invoke the
\* action. An action that calls RegisterFinalizer on the same Manager gets
\* the write lock once the readers have left and returns, and in no state,
\* with another goroutine waiting to register included, are all callers
\* blocked.
C33_NoLockWhileActing == []C33_State /\ [][C33_Step]_vars

\* The action of r1's Finalize holds the write lock for its registration
\* while another goroutine waits to register and r2 waits to read.
C33_Witness ==
    /\ cpc["r1"] = "nheld" /\ cop["r1"].op = "Finalize"
    /\ wpc = "wait"
    /\ cpc["r2"] = "rlock"
    /\ registry[NestedName] = NestedAction

C34_Removal ==
    (UninstallName \in Range(rFins) /\ UninstallName \notin Range(rFins')) =>
        /\ Reconciled("delete")
        /\ rLast'.invoked
        /\ uninstallCalls' = uninstallCalls + 1
        /\ rLast'.outcome \in {"ok", "notfound"}
        /\ rLast'.write
        /\ rLast'.err = "nil"

C34_WriteFailureKeeps ==
    (Reconciled("delete") /\ rLast'.outcome = "ok" /\ ~rLast'.write) =>
        /\ UninstallName \in Range(rFins)
        /\ rFins' = rFins
        /\ rLast'.err # "nil"

C34_Retry ==
    (rLast.op = "delete" /\ rLast.outcome = "ok" /\ ~rLast.write
        /\ Reconciled("delete")) =>
        /\ rLast'.invoked
        /\ uninstallCalls' = uninstallCalls + 1

\* C34: over any run of deletion reconciles, the uninstall finalizer's name
\* leaves the resource only in an attempt whose UninstallRelease returned a
\* release or ErrNotFound and whose status write succeeded; an attempt
\* whose uninstall succeeded and whose status write failed keeps the name,
\* and the attempt after it calls UninstallRelease again.
C34_RemovedOnlyAfterWrite ==
    [][C34_Removal /\ C34_WriteFailureKeeps /\ C34_Retry]_vars

\* The write after a successful uninstall failed, and the second attempt,
\* which found no release, dropped the name.
C34_Witness ==
    /\ installCalls = 1 /\ uninstallCalls = 2
    /\ rLast.op = "delete" /\ rLast.invoked
    /\ rLast.outcome = "notfound" /\ rLast.write
    /\ release = "absent"
    /\ UninstallName \in Range(rLast.pre)
    /\ UninstallName \notin Range(rFins)

\* The statuses a and b agree on the condition of type t.
SameCondition(a, b, t) ==
    /\ (t \in DOMAIN a) = (t \in DOMAIN b)
    /\ t \in DOMAIN a => a[t] = b[t]

C35_State ==
    (rLast.op = "delete" /\ rLast.outcome = "notfound") =>
        /\ SameCondition(rLast.status, rLast.before, "Deployed")
        /\ "ReleaseFailed" \notin DOMAIN rLast.status
        /\ \A t \in (DOMAIN rLast.status \cup DOMAIN rLast.before)
                        \ {"ReleaseFailed"} :
               SameCondition(rLast.status, rLast.before, t)
        /\ SameCondition(rStored, rLast.before, "Deployed")

C35_Step ==
    (~HasCondition(rStored, "Deployed", UninstalledCondition)
        /\ HasCondition(rStored', "Deployed", UninstalledCondition)) =>
        /\ Reconciled("delete")
        /\ rLast'.outcome = "ok"
        /\ release = "deployed"

\* C35: when UninstallRelease returns ErrNotFound the finalizer leaves the
\* Deployed condition exactly as it found it and removes nothing but the
\* ReleaseFailed condition; Deployed=False with reason UninstallSuccessful
\* enters the status only in an attempt whose uninstall returned a release.
C35_NotFoundKeepsDeployed == []C35_State /\ [][C35_Step]_vars

\* A not-found attempt found Deployed=True and ReleaseFailed=True in the
\* status and left only the former.
C35_Witness ==
    /\ rLast.op = "delete" /\ rLast.outcome = "notfound" /\ rLast.write
    /\ HasCondition(rLast.before, "Deployed",
                    Condition("True", "InstallSuccessful", ""))
    /\ "ReleaseFailed" \in DOMAIN rLast.before
    /\ HasCondition(rStored, "Deployed",
                    Condition("True", "InstallSuccessful", ""))
    /\ "ReleaseFailed" \notin DOMAIN rStored

\* C36: a Reconcile call removes no name from the resource's list, the
\* names without a registration included, keeps the order of the names
\* that were there, invokes no finalize action and leaves the registry as
\* it was.
C36_ReconcileRemovesNothing ==
    last.op = "Reconcile" =>
        /\ Range(last.pre) \subseteq Range(fins)
        /\ Restrict(fins, Range(last.pre)) = last.pre
        /\ last.invoked = <<>>
        /\ registry = last.reg

\* Reconcile ran on a list with an unregistered name while a registered
\* name was missing from it.
C36_Witness ==
    /\ last.op = "Reconcile" /\ last.ret
    /\ Range(last.pre) \cap Unregistered(last.reg) # {}
    /\ Range(last.pre) \cap Registered(last.reg) # {}
    /\ Registered(last.reg) \ Range(last.pre) # {}
    /\ Range(last.pre) \subseteq Range(fins)

\* The call the Manager's operation op makes once the version is resolved.
ActOf(op) == IF op = "Uninstall" THEN "UninstallVersion" ELSE "GetStatus"

\* C37: Uninstall and Status resolve the version before they act. The
\* installed version undetermined and none supplied: an error, and
\* UninstallVersion or GetStatus is not called. Determined and a different
\* one supplied: a mismatch error, and nothing is called. Determined and
\* none supplied: the detected version becomes m.Version and is acted on.
\* Undetermined and one supplied: the supplied version is acted on.
C37_VersionResolvedFirst ==
    olmOut.op \in {"Uninstall", "Status"} =>
        LET det == olmOut.installed
            sup == olmIn.Version
            r == olmOut.res
            Acted(v) == r.acted = <<[call |-> ActOf(olmOut.op), version |-> v]>>
        IN /\ (det.err # "nil" /\ sup = <<>>) =>
                  (r.err = "undetermined" /\ r.acted = <<>>)
           /\ (det.err = "nil" /\ sup # <<>> /\ det.ver # sup) =>
                  (r.err = "mismatch" /\ r.acted = <<>>)
           /\ (det.err = "nil" /\ sup = <<>>) =>
                  (r.Version = det.ver /\ Acted(det.ver))
           /\ (det.err # "nil" /\ sup # <<>>) =>
                  (r.Version = sup /\ Acted(sup))
           /\ Len(r.acted) <= 1

\* Uninstall without --version adopted the version read from the name of
\* the package server CSV and uninstalled it.
C37_Witness ==
    /\ olmOut.op = "Uninstall"
    /\ olmIn.Version = <<>>
    /\ olmOut.installed = Version(<<"0.10.1">>, "nil")
    /\ olmOut.res.Version = <<"0.10.1">>
    /\ olmOut.res.acted =
           <<[call |-> "UninstallVersion", version |-> <<"0.10.1">>]>>
    /\ olmOut.res.err = "nil"

\* The name of a package server CSV: the fixed name, or the old prefix.
IsPackageServer(name) ==
    \/ name = <<"packageserver">>
    \/ Len(name) >= 2 /\ name[1] = "packageserver" /\ name[2] = "."

\* What follows "packageserver." in a name, without one leading "v"; the
\* whole name when it has no such prefix.
NameSuffix(name) ==
    LET rest == IF Len(name) >= 2 /\ name[1] = "packageserver" /\ name[2] = "."
                THEN SubSeq(name, 3, Len(name)) ELSE name
    IN IF rest # <<>> /\ rest[1] = "v" THEN Tail(rest) ELSE rest

\* C38: GetInstalledVersion returns ErrOLMNotInstalled when the list has no
\* package server CSV or List says not-found or no-match, an error when
\* the list has more than one package server CSV, and otherwise the version
\* of the one it has: its olm.version label when it has one, else the
\* suffix of its name when that is a semantic version, else an error.
C38_InstalledVersion ==
    olmOut.op = "GetInstalledVersion" =>
        LET list == olmIn.list
            pkg == {j \in 1..Len(list.items) :
                        IsPackageServer(list.items[j].name)}
            out == olmOut.installed
        IN /\ list.err \in {"notfound", "nomatch"} =>
                  out.err = "ErrOLMNotInstalled"
           /\ (list.err = "nil" /\ pkg = {}) => out.err = "ErrOLMNotInstalled"
           /\ (list.err = "nil" /\ Cardinality(pkg) > 1) =>
                  out.err = "morethanone"
           /\ (list.err = "nil" /\ Cardinality(pkg) = 1) =>
                  LET csv == list.items[CHOOSE j \in pkg : TRUE]
                  IN IF "olm.version" \in DOMAIN csv.labels
                     THEN out = Version(csv.labels["olm.version"], "nil")
                     ELSE IF Len(NameSuffix(csv.name)) = 1
                             /\ NameSuffix(csv.name)[1] \in SemverParts
                     THEN out = Version(NameSuffix(csv.name), "nil")
                     ELSE out.err \notin {"nil", "ErrOLMNotInstalled"}
           /\ out.err # "nil" => out.ver = <<>>

\* The version came from the name of the one package server CSV, listed
\* after another CSV and without the label.
C38_Witness ==
    /\ olmOut.op = "GetInstalledVersion"
    /\ olmIn.list.err = "nil" /\ Len(olmIn.list.items) = 2
    /\ olmIn.list.items[1].name = <<"etcd">>
    /\ "olm.version" \in DOMAIN olmIn.list.items[1].labels
    /\ olmIn.list.items[2].name = <<"packageserver", ".", "v", "0.10.1">>
    /\ "olm.version" \notin DOMAIN olmIn.list.items[2].labels
    /\ olmOut.installed = Version(<<"0.10.1">>, "nil")

\* The group of an owner reference: what stands before the "/" of its
\* apiVersion, the core group when there is no such part.
RefGroup(ref) == IF Len(ref.APIVersion) = 2 THEN ref.APIVersion[1] ELSE ""

\* The object has an owner reference of the owner type's group and kind.
OwnedByType(o) ==
    \E j \in 1..Len(o.refs) :
        RefGroup(o.refs[j]) = ownerType.Group /\ o.refs[j].Kind = ownerType.Kind

\* C40: every Create, Update, Delete and Generic notification reaches the
\* wrapped handler once, by the same method and as it came, whatever owner
\* references the object has; a record of it is logged exactly when the
\* object, or for an update the new object, has an owner reference of the
\* owner type's group and kind, the version of the reference not counting.
C40_ForwardsEveryEvent ==
    handled # <<>> =>
        LET n == handled[1]
            update == n.method = "Update"
            o == IF update THEN n.e.ObjectOld ELSE n.e.Object
            found == OwnedByType(o) \/ (update /\ OwnedByType(n.e.ObjectNew))
        IN /\ forwarded = handled
           /\ Len(logged) <= 1
           /\ (logged # <<>>) = found
           /\ logged # <<>> =>
                  /\ logged[1].EventType = n.method
                  /\ logged[1].Name = o.name
                  /\ logged[1].OwnerKind = ownerType.Kind

\* An update whose old object has no reference of the owner type and whose
\* new object has one of another version was logged and forwarded.
C40_Witness ==
    /\ Len(handled) = 1 /\ handled[1].method = "Update"
    /\ ownerType.Group = "g1"
    /\ ~OwnedByType(handled[1].e.ObjectOld)
    /\ Len(handled[1].e.ObjectOld.refs) = 2
    /\ handled[1].e.ObjectNew.refs =
           <<OwnerReference(<<"g1", "v1">>, "K2", "own"),
             OwnerReference(<<"g1", "v2">>, "K1", "own")>>
    /\ Len(logged) = 1 /\ logged[1].OwnerAPIVersion = <<"g1", "v2">>
    /\ forwarded = handled

\* The call goes on to the next object, or returns nil after the last one.
NextObject(pc) ==
    IF pleft > 1 THEN ppc' = pc /\ pret' = "none" /\ pleft' = pleft - 1
    ELSE ppc' = "returned" /\ pret' = "nil"

\* The call stops at this object and returns err.
StopsWith(err) == ppc' = "returned" /\ pret' = err /\ pleft' = pleft

C39_Create ==
    (ppc = "create" /\ papi' # papi) =>
        /\ papi'.out \in {"ok", "exists"} => NextObject("create")
        /\ papi'.out \notin {"ok", "exists"} => StopsWith(papi'.out)

C39_DeleteRequest ==
    (ppc = "delete" /\ papi' # papi) =>
        /\ papi.gone = papi.issued
        /\ papi'.gone = papi.gone
        /\ papi'.out \in {"ok", "notfound"} =>
               (ppc' = "first" /\ pret' = "none" /\ pleft' = pleft)
        /\ papi'.out \notin {"ok", "notfound"} => StopsWith(papi'.out)

C39_DeleteWait ==
    (pkind = "DoDelete" /\ ppc \in {"first", "select"} /\ polls' = polls + 1) =>
        /\ papi'.issued = papi.issued
        /\ plast'.err = "notfound" =>
               (papi'.gone = papi.gone + 1 /\ NextObject("delete"))
        /\ plast'.err = "nil" =>
               (papi'.gone = papi.gone /\ ppc' = "select" /\ pleft' = pleft)
        /\ plast'.err \notin {"nil", "notfound"} =>
               (papi'.gone = papi.gone /\ StopsWith(plast'.err))

C39_Returned ==
    (ppc = "returned" /\ papi' # papi) => (papi' = NoApi /\ polls' = 0)

C39_State ==
    pkind \in {"DoCreate", "DoDelete"} =>
        /\ pkind = "DoDelete" =>
               /\ papi.gone <= papi.issued
               /\ papi.issued <= papi.gone + 1
               /\ ppc = "delete" => papi.gone = papi.issued
        /\ (ppc = "returned" /\ pret = "nil") =>
               /\ pleft = 0
               /\ papi.out \in {"none", "ok", "exists", "notfound"}
               /\ pkind = "DoDelete" => papi.gone = papi.issued

\* C39: DoCreate goes on to the next object after a Create that succeeded
\* or found the object existing; DoDelete waits for the object to be gone
\* after a Delete that succeeded or found it missing, and sends the Delete
\* for the next object only when every object before it has been seen
\* gone; any other error, of the request or of a Get of the wait, ends the
\* call at that object and is what the call returns.
C39_OrderedAndIdempotent ==
    /\ []C39_State
    /\ [][C39_Create /\ C39_DeleteRequest /\ C39_DeleteWait /\ C39_Returned]_vars

\* The first object's Delete found nothing, the object was then seen gone,
\* and the call stands before the Delete of the second object.
C39_Witness ==
    /\ pkind = "DoDelete" /\ ppc = "delete"
    /\ papi = [issued |-> 1, gone |-> 1, out |-> "notfound"]
    /\ pleft = 1 /\ polls = 2
    /\ plast.err = "notfound"

====
